---- MODULE Spec2Model ----
(***************************************************************************)
(* Word alignment and scoring engine of ocrmetrics:                        *)
(*   static/js/preprocessor.js  (tokenize, removePunctuation,              *)
(*                               preprocessText)                           *)
(*   static/js/matcher.js       (counter, matchWords, createAnnotations)   *)
(*   static/js/metrics.js       (levenshteinDistance, calculateMetrics)    *)
(*   static/js/batch-mode.js    (the scoring loop of handleBatchAnalyze)   *)
(*                                                                         *)
(* A word is a sequence of one-character strings.  JavaScript values that  *)
(* can be a number, NaN, a string, a function, undefined or null are       *)
(* pairs <<type, payload>>; a word slot that may hold null holds the       *)
(* sequence null, which is no word.  Floating point quotients are exact    *)
(* fractions <<numerator, denominator>> in lowest terms; a denominator of  *)
(* 0 stands for the NaN or Infinity a division by zero yields.             *)
(***************************************************************************)
EXTENDS Integers, Sequences, FiniteSets, Bags, TLC

VARIABLES
    gtWords,      \* matchWords: the ground truth word list
    ocrWords,     \* matchWords: the OCR word list
    matches,      \* matchWords: the returned match list
    pc,           \* "start" before the call, "done" after it
    argMatches,   \* calculateMetrics: argument matches
    argGtWords,   \* calculateMetrics: optional argument gtWords, <<>> or <<list>>
    argOcrWords,  \* calculateMetrics: optional argument ocrWords, <<>> or <<list>>
    metrics,      \* calculateMetrics: the returned object
    str1,         \* levenshteinDistance: first argument
    str2,         \* levenshteinDistance: second argument
    distance,     \* levenshteinDistance: the returned number
    text,         \* preprocessText: argument text
    config,       \* the configuration object
    result,       \* preprocessText: the returned object
    loaded,       \* the file whose declaration of createAnnotations is in force
    wordData,     \* createAnnotations: argument wordData
    isGroundTruth,  \* createAnnotations: argument isGroundTruth
    annotations,  \* createAnnotations: the outcome of the call
    groundTruth,  \* scoring loop: the ground truth text
    ocrOutput,    \* scoring loop: the text of one model
    gtResult,     \* scoring loop: preprocessText(groundTruth, config)
    ocrResult,    \* scoring loop: preprocessText(ocrOutput, config)
    gtAnnotations,   \* scoring loop: the outcome of createAnnotations(.., true)
    ocrAnnotations,  \* scoring loop: the outcome of createAnnotations(.., false)
    uploadedFiles,   \* batch-mode.js line 6: the files selected
    batchResults,    \* the results last handed to displayBatchResults
    errorBox,        \* the element error-message: its text, whether it shows
    loading,         \* whether the element loading shows
    calls,           \* the invocations of handleBatchAnalyze, in click order
    tableRenderer,   \* window.TableRenderer
    tableRows,       \* the main rows of the comparison table
    listeners,       \* the handlers on the export button and on a checkbox
    effects          \* what the handlers of the last click or change did

\* The variables of the word matcher, the scorer and the edit distance.
scoringVars == <<gtWords, ocrWords, argGtWords, argOcrWords, str1, str2,
                 distance>>

\* The variables of one call of preprocessText.
preprocessVars == <<text, result>>

\* The variables of one call of createAnnotations.
annotateVars == <<wordData, isGroundTruth, annotations>>

\* The variables of one turn of the scoring loop.
loopVars == <<groundTruth, ocrOutput, gtResult, ocrResult, gtAnnotations,
              ocrAnnotations>>

\* The variables of the batch page.
pageVars == <<uploadedFiles, batchResults, errorBox, loading, calls,
              tableRenderer, tableRows, listeners, effects>>

vars == <<gtWords, ocrWords, matches, pc, argMatches, argGtWords, argOcrWords,
          metrics, str1, str2, distance, text, config, result, loaded,
          wordData, isGroundTruth, annotations, groundTruth, ocrOutput,
          gtResult, ocrResult, gtAnnotations, ocrAnnotations, uploadedFiles,
          batchResults, errorBox, loading, calls, tableRenderer, tableRows,
          listeners, effects>>

----------------------------------------------------------------------------
(* Bounds of the model. *)

MaxGtWords == 3
MaxOcrWords == 2
MaxMatches == 2
MaxArgWords == 2
MaxStrLen == 4

----------------------------------------------------------------------------
(* Words. *)

wA == <<"a">>
wB == <<"b">>
w7 == <<"7">>
wConstructor == <<"c", "o", "n", "s", "t", "r", "u", "c", "t", "o", "r">>

\* The words the word lists of matchWords are drawn from: two ordinary words,
\* a word that is an array index and a word that names a property every
\* JavaScript object inherits.
Vocabulary == {wA, wB, w7, wConstructor}

\* The words the arguments of calculateMetrics are drawn from.
MetricWords == {wA, wB}

\* The characters the arguments of levenshteinDistance are drawn from.
Alphabet == {"a", "b", "c"}

SeqsUpTo(S, n) == UNION {[1..k -> S] : k \in 0..n}

Min2(a, b) == IF a <= b THEN a ELSE b

----------------------------------------------------------------------------
(* JavaScript values. *)

Num(n) == <<"number", n>>
NaN == <<"NaN", 0>>
\* The source text of the function f followed by k characters "1".
Str(k) == <<"string", k>>
Fn == <<"function", 0>>
Undefined == <<"undefined", 0>>
JsNull == <<"null", 0>>
\* null in a slot that otherwise holds a word
null == <<"null">>

IsNum(v) == v[1] = "number"

\* ToBoolean
Truthy(v) ==
    CASE v[1] = "number" -> v[2] # 0
      [] v[1] = "string" -> TRUE
      [] v[1] = "function" -> TRUE
      [] OTHER -> FALSE

\* ToNumber: the strings that arise here are function source texts
ToNumber(v) ==
    CASE v[1] = "number" -> v
      [] v[1] = "null" -> Num(0)
      [] OTHER -> NaN

\* v || 0
OrZero(v) == IF Truthy(v) THEN v ELSE Num(0)

\* v + 1: addition for numbers, concatenation once a string or function is involved
PlusOne(v) ==
    CASE v[1] = "number" -> Num(v[2] + 1)
      [] v[1] = "string" -> Str(v[2] + 1)
      [] v[1] = "function" -> Str(1)
      [] v[1] = "null" -> Num(1)
      [] OTHER -> NaN

\* a - b
Minus(a, b) ==
    LET x == ToNumber(a)
        y == ToNumber(b)
    IN  IF IsNum(x) /\ IsNum(y) THEN Num(x[2] - y[2]) ELSE NaN

\* Math.min(a, b)
MathMin(a, b) ==
    LET x == ToNumber(a)
        y == ToNumber(b)
    IN  IF IsNum(x) /\ IsNum(y)
        THEN Num(IF x[2] <= y[2] THEN x[2] ELSE y[2])
        ELSE NaN

\* The number of iterations of  for (let i = 0; i < v; i++):  i < NaN is false.
LoopCount(v) ==
    LET x == ToNumber(v)
    IN  IF IsNum(x) /\ x[2] > 0 THEN x[2] ELSE 0

----------------------------------------------------------------------------
(* JavaScript objects created by {}: own properties in creation order, as  *)
(* a sequence of <<key, value>>, on top of Object.prototype.               *)

\* Of the properties of Object.prototype, the names that occur in Vocabulary.
ObjectPrototypeKeys == {wConstructor}

EmptyObject == <<>>

HasOwn(o, k) == \E i \in 1..Len(o) : o[i][1] = k

OwnIndex(o, k) == CHOOSE i \in 1..Len(o) : o[i][1] = k

\* o[k]: an own property, else the inherited one, else undefined
Get(o, k) ==
    IF HasOwn(o, k) THEN o[OwnIndex(o, k)][2]
    ELSE IF k \in ObjectPrototypeKeys THEN Fn
    ELSE Undefined

\* k in o: own or inherited
In(k, o) == HasOwn(o, k) \/ k \in ObjectPrototypeKeys

\* o[k] = v
Put(o, k, v) ==
    IF HasOwn(o, k)
    THEN [o EXCEPT ![OwnIndex(o, k)] = <<k, v>>]
    ELSE Append(o, <<k, v>>)

Digits == {"0", "1", "2", "3", "4", "5", "6", "7", "8", "9"}

DigitValue(c) ==
    CASE c = "0" -> 0 [] c = "1" -> 1 [] c = "2" -> 2 [] c = "3" -> 3
      [] c = "4" -> 4 [] c = "5" -> 5 [] c = "6" -> 6 [] c = "7" -> 7
      [] c = "8" -> 8 [] c = "9" -> 9

RECURSIVE IndexValue(_)
IndexValue(w) ==
    IF Len(w) = 0 THEN 0
    ELSE 10 * IndexValue(SubSeq(w, 1, Len(w) - 1)) + DigitValue(w[Len(w)])

\* A property key that is an array index: a canonical numeric string (below
\* 2^32 - 1; here of at most nine digits, which the integers of TLC can hold).
IsArrayIndex(w) ==
    /\ Len(w) >= 1
    /\ \A i \in 1..Len(w) : w[i] \in Digits
    /\ (Len(w) = 1 \/ w[1] # "0")
    /\ Len(w) <= 9

\* Object.keys(o): array indices in ascending order, then the other keys in
\* creation order.
ObjectKeys(o) ==
    LET all == [i \in 1..Len(o) |-> o[i][1]]
        idx == SelectSeq(all, IsArrayIndex)
        IsName(w) == ~IsArrayIndex(w)
    IN  SortSeq(idx, LAMBDA a, b : IndexValue(a) < IndexValue(b))
            \o SelectSeq(all, IsName)

\* Object.entries(o)
ObjectEntries(o) ==
    LET ks == ObjectKeys(o)
    IN  [i \in 1..Len(ks) |-> <<ks[i], Get(o, ks[i])>>]

----------------------------------------------------------------------------
(* preprocessor.js *)

\* The characters /\s/ matches, of those that occur in the texts.
Whitespace == {" ", "\t", "\n"}

\* Line 18: text.split(/\s+/): the pieces between the maximal runs of
\* whitespace, empty pieces at the ends included.
RECURSIVE Split(_, _, _)
Split(txt, i, pieces) ==
    IF i > Len(txt) THEN pieces
    ELSE IF txt[i] \in Whitespace
    THEN IF i > 1 /\ txt[i - 1] \in Whitespace
         THEN Split(txt, i + 1, pieces)
         ELSE Split(txt, i + 1, Append(pieces, <<>>))
    ELSE Split(txt, i + 1,
               [pieces EXCEPT ![Len(pieces)] = Append(pieces[Len(pieces)], txt[i])])

NonEmpty(word) == Len(word) > 0

\* Lines 12-19
tokenize(txt) ==
    IF Len(txt) = 0 THEN <<>>
    ELSE SelectSeq(Split(txt, 1, << <<>> >>), NonEmpty)

\* The grave accent (U+0060), which a TLA+ string cannot hold.
GraveAccent == "grave"

\* Lines 31 and 96: the 32 characters ! " # $ % & ' ( ) * + , - . / : ; < = >
\* ? @ [ \ ] ^ _ (grave accent) { | } ~
DefaultPunctuation ==
    <<"!", "\"", "#", "$", "%", "&", "'", "(", ")", "*", "+", ",", "-", ".",
      "/", ":", ";", "<", "=", ">", "?", "@", "[", "\\", "]", "^", "_",
      GraveAccent, "{", "|", "}", "~">>

\* Line 35: the characters /[-[\]{}()*+?.,\\^$|#\s]/ matches
RegExpSpecial ==
    {"-", "[", "]", "{", "}", "(", ")", "*", "+", "?", ".", ",", "\\", "^",
     "$", "|", "#"} \cup Whitespace

\* Line 35: punctuationChars.replace(/[-[\]{}()*+?.,\\^$|#\s]/g, '\\$&')
RECURSIVE EscapeRegExp(_)
EscapeRegExp(chars) ==
    IF Len(chars) = 0 THEN <<>>
    ELSE (IF Head(chars) \in RegExpSpecial THEN <<"\\", Head(chars)>>
          ELSE <<Head(chars)>>) \o EscapeRegExp(Tail(chars))

\* Line 35: the characters the class [...] built around the escaped string
\* matches: a backslash stands for the character that follows it, any other
\* character for itself.
RECURSIVE ClassChars(_, _)
ClassChars(source, i) ==
    IF i > Len(source) THEN {}
    ELSE IF source[i] = "\\" /\ i < Len(source)
    THEN {source[i + 1]} \cup ClassChars(source, i + 2)
    ELSE {source[i]} \cup ClassChars(source, i + 1)

\* Faulty variant of removePunctuation: punctuation removed at the two ends
\* of the word only.
RECURSIVE removePunctuationAtEnds(_, _)
removePunctuationAtEnds(word, punctuationChars) ==
    LET chars == IF Len(punctuationChars) = 0 THEN DefaultPunctuation
                 ELSE punctuationChars
        class == ClassChars(EscapeRegExp(chars), 1)
    IN  IF Len(word) = 0 THEN word
        ELSE IF word[1] \in class
        THEN removePunctuationAtEnds(Tail(word), punctuationChars)
        ELSE IF word[Len(word)] \in class
        THEN removePunctuationAtEnds(SubSeq(word, 1, Len(word) - 1),
                                     punctuationChars)
        ELSE word

\* Lines 28-37
removePunctuation(word, punctuationChars) ==
    LET chars == IF Len(punctuationChars) = 0 THEN DefaultPunctuation
                 ELSE punctuationChars
        class == ClassChars(EscapeRegExp(chars), 1)
        Kept(c) == c \notin class
    IN  SelectSeq(word, Kept)

UpperCase ==
    <<"A", "B", "C", "D", "E", "F", "G", "H", "I", "J", "K", "L", "M", "N",
      "O", "P", "Q", "R", "S", "T", "U", "V", "W", "X", "Y", "Z">>

LowerCase ==
    <<"a", "b", "c", "d", "e", "f", "g", "h", "i", "j", "k", "l", "m", "n",
      "o", "p", "q", "r", "s", "t", "u", "v", "w", "x", "y", "z">>

\* String.prototype.toLowerCase on one character
LowerChar(c) ==
    IF \E k \in DOMAIN UpperCase : UpperCase[k] = c
    THEN LowerCase[CHOOSE k \in DOMAIN UpperCase : UpperCase[k] = c]
    ELSE c

\* Line 102: normalized.toLowerCase()
toLowerCase(word) == [k \in DOMAIN word |-> LowerChar(word[k])]

\* A configuration object: each option is <<>> where the object has no such
\* property, <<value>> where it has.
Config(ignorePunctuation, caseSensitive, punctuationChars) ==
    [ignore_punctuation |-> ignorePunctuation,
     case_sensitive |-> caseSensitive,
     punctuation_chars |-> punctuationChars]

\* Faulty variant of IgnorePunctuation: an object without the option counts
\* as one with the option off.
IgnorePunctuationIfSet(cfg) ==
    Len(cfg.ignore_punctuation) = 1 /\ cfg.ignore_punctuation[1] = TRUE

\* Line 95: config.ignore_punctuation !== false
IgnorePunctuation(cfg) ==
    ~(Len(cfg.ignore_punctuation) = 1 /\ cfg.ignore_punctuation[1] = FALSE)

\* Line 101: config.case_sensitive !== true, negated
CaseSensitive(cfg) ==
    Len(cfg.case_sensitive) = 1 /\ cfg.case_sensitive[1] = TRUE

\* Line 96: config.punctuation_chars || the default string
PunctChars(cfg) ==
    IF Len(cfg.punctuation_chars) = 1 /\ Len(cfg.punctuation_chars[1]) > 0
    THEN cfg.punctuation_chars[1]
    ELSE DefaultPunctuation

\* Faulty variant of WordInfo: the position taken after the push without
\* the - 1.
WordInfoLength(normalized, original, normalizedWords) ==
    [normalized |-> normalized, original |-> original,
     position |-> Len(normalizedWords)]

\* Lines 108-112, normalizedWords being the list after the push of line 107
WordInfo(normalized, original, normalizedWords) ==
    [normalized |-> normalized, original |-> original,
     position |-> Len(normalizedWords) - 1]

\* Lines 90-114: the loop over the tokens
RECURSIVE PreprocessLoop(_, _, _, _, _)
PreprocessLoop(originalWords, cfg, i, normalizedWords, data) ==
    IF i > Len(originalWords)
    THEN [words |-> normalizedWords, wordData |-> data]
    ELSE LET original == originalWords[i]
             stripped == IF IgnorePunctuation(cfg)
                         THEN removePunctuation(original, PunctChars(cfg))
                         ELSE original
             normalized == IF CaseSensitive(cfg) THEN stripped
                           ELSE toLowerCase(stripped)
             pushed == Append(normalizedWords, normalized)
         IN  IF Len(normalized) > 0
             THEN PreprocessLoop(originalWords, cfg, i + 1, pushed,
                                 Append(data, WordInfo(normalized, original, pushed)))
             ELSE PreprocessLoop(originalWords, cfg, i + 1, normalizedWords, data)

\* Lines 81-119
preprocessText(txt, cfg) == PreprocessLoop(tokenize(txt), cfg, 1, <<>>, <<>>)

----------------------------------------------------------------------------
(* matcher.js *)

RECURSIVE counterLoop(_, _, _)
counterLoop(arr, i, counts) ==
    IF i > Len(arr) THEN counts
    ELSE counterLoop(arr, i + 1,
                     Put(counts, arr[i], PlusOne(OrZero(Get(counts, arr[i])))))

\* Faulty variant of counter: the count of an item restarts when the item before it
\* is another one (a run length instead of a total).
RECURSIVE counterRunsLoop(_, _, _)
counterRunsLoop(arr, i, counts) ==
    IF i > Len(arr) THEN counts
    ELSE counterRunsLoop(arr, i + 1,
            Put(counts, arr[i],
                IF i > 1 /\ arr[i - 1] = arr[i]
                THEN PlusOne(OrZero(Get(counts, arr[i])))
                ELSE Num(1)))

counterRuns(arr) == counterRunsLoop(arr, 1, EmptyObject)

counter(arr) == counterLoop(arr, 1, EmptyObject)

Repeat(x, n) == [i \in 1..n |-> x]

\* The comparator of line 44, (a, b) => gtCounts[b] - gtCounts[a]; sort()
\* reads a NaN result as 0.
CompareCounts(counts, a, b) ==
    LET d == Minus(Get(counts, b), Get(counts, a))
    IN  IF IsNum(d) THEN d[2] ELSE 0

\* x inserted into the sorted sequence s behind every element that does not
\* have to follow it.
RECURSIVE InsertSorted(_, _, _)
InsertSorted(counts, s, x) ==
    IF Len(s) > 0 /\ CompareCounts(counts, s[Len(s)], x) > 0
    THEN Append(InsertSorted(counts, SubSeq(s, 1, Len(s) - 1), x), s[Len(s)])
    ELSE Append(s, x)

\* Array.prototype.sort with the comparator of line 44: a stable insertion
\* sort.  (Where the comparator is inconsistent, because a count is NaN-valued,
\* the order sort() produces is implementation-defined; only the order of the
\* records depends on it.)
RECURSIVE SortByCount(_, _)
SortByCount(counts, ks) ==
    IF Len(ks) = 0 THEN <<>>
    ELSE InsertSorted(counts, SortByCount(counts, SubSeq(ks, 1, Len(ks) - 1)),
                      ks[Len(ks)])

\* Line 51
ExactRecord(w) == <<w, w, Num(0), "exact">>

\* Faulty variant of GtOnlyRecord: the OCR slot filled as in line 51.
GtOnlyRecordPaired(w) == <<w, w, JsNull, "gt_only">>

\* Line 78
GtOnlyRecord(w) == <<w, null, JsNull, "gt_only">>

\* Line 83
OcrOnlyRecord(w) == <<null, w, JsNull, "ocr_only">>

\* Faulty variant of MatchCount: every ground truth instance counts as matched.
MatchCountGt(gtCounts, ocrCounts, gtWord) == ToNumber(Get(gtCounts, gtWord))

\* Line 49
MatchCount(gtCounts, ocrCounts, gtWord) ==
    MathMin(Get(gtCounts, gtWord), Get(ocrCounts, gtWord))

\* PHASE 1, lines 46-56: st = [matches, gtMatched, ocrMatched]
RECURSIVE ExactPhase(_, _, _, _, _)
ExactPhase(gtCounts, ocrCounts, unique, i, st) ==
    IF i > Len(unique) THEN st
    ELSE LET gtWord == unique[i]
             matchCount == MatchCount(gtCounts, ocrCounts, gtWord)
         IN  IF In(gtWord, ocrCounts)
             THEN ExactPhase(gtCounts, ocrCounts, unique, i + 1,
                    [matches |-> st.matches
                                   \o Repeat(ExactRecord(gtWord), LoopCount(matchCount)),
                     gtMatched |-> Put(st.gtMatched, gtWord, matchCount),
                     ocrMatched |-> Put(st.ocrMatched, gtWord, matchCount)])
             ELSE ExactPhase(gtCounts, ocrCounts, unique, i + 1, st)

\* Lines 60-66 and 68-74: the unmatched instances of each word
RECURSIVE Remaining(_, _, _)
Remaining(entries, matchedObj, i) ==
    IF i > Len(entries) THEN <<>>
    ELSE LET word == entries[i][1]
             count == entries[i][2]
             matched == OrZero(Get(matchedObj, word))
         IN  Repeat(word, LoopCount(Minus(count, matched)))
                 \o Remaining(entries, matchedObj, i + 1)

matchWords(gt, ocr) ==
    LET gtCounts == counter(gt)
        ocrCounts == counter(ocr)
        gtWordsUnique == SortByCount(gtCounts, ObjectKeys(gtCounts))
        ph1 == ExactPhase(gtCounts, ocrCounts, gtWordsUnique, 1,
                          [matches |-> <<>>, gtMatched |-> EmptyObject,
                           ocrMatched |-> EmptyObject])
        gtRemaining == Remaining(ObjectEntries(gtCounts), ph1.gtMatched, 1)
        ocrRemaining == Remaining(ObjectEntries(ocrCounts), ph1.ocrMatched, 1)
    IN  ph1.matches
            \o [i \in 1..Len(gtRemaining) |-> GtOnlyRecord(gtRemaining[i])]
            \o [i \in 1..Len(ocrRemaining) |-> OcrOnlyRecord(ocrRemaining[i])]

----------------------------------------------------------------------------
(* createAnnotations: matcher.js lines 97-185, and the second declaration   *)
(* of the same function in preprocessor.js lines 217-317.  The two differ   *)
(* in how a record is picked for a token and in what happens when the       *)
(* records of a word are used up; the declaration in force is the one of    *)
(* the file loaded last.                                                    *)

Files == {"matcher.js", "preprocessor.js"}

\* The outcome of a call that returned v, of a call that raised a TypeError
\* ("... is not a function"), and of a call that was not made.
Returned(v) == [outcome |-> "returned", value |-> v]
TypeError == [outcome |-> "TypeError", value |-> <<>>]
NotCalled == [outcome |-> "none", value |-> <<>>]

Threw(call) == call.outcome = "TypeError"
HasReturned(call) == call.outcome = "returned"

\* Lines 113 and 129: the string 'match_' followed by idx
MatchId(idx) == <<"match", idx>>

\* matcher.js lines 109-115 and 125-131, preprocessor.js lines 229-236 and
\* 246-253: the object pushed for record m at index idx; only the
\* declaration of preprocessor.js stores the index as order.
MatchInfo(file, m, idx, partner) ==
    LET id == IF m[4] = "exact" THEN MatchId(idx) ELSE JsNull
    IN  IF file = "matcher.js"
        THEN [matched_with |-> partner, edit_distance |-> m[3],
              match_type |-> m[4], match_id |-> id, used |-> FALSE]
        ELSE [matched_with |-> partner, edit_distance |-> m[3],
              match_type |-> m[4], match_id |-> id, order |-> idx,
              used |-> FALSE]

\* matcher.js lines 102-136: the loop that fills matchMap, a plain object.
\* Where the key names an inherited property, "key in matchMap" holds, no
\* array is created and .push is called on the inherited value.
RECURSIVE BuildMatchMap(_, _, _, _, _)
BuildMatchMap(file, ms, isGT, i, matchMap) ==
    IF i > Len(ms) THEN Returned(matchMap)
    ELSE LET m == ms[i]
             key == IF isGT THEN m[1] ELSE m[2]
             partner == IF isGT THEN m[2] ELSE m[1]
             types == IF isGT THEN {"exact", "gt_only"} ELSE {"exact", "ocr_only"}
             created == IF In(key, matchMap) THEN matchMap
                        ELSE Put(matchMap, key, <<>>)
         IN  IF m[4] \notin types
             THEN BuildMatchMap(file, ms, isGT, i + 1, matchMap)
             ELSE IF ~HasOwn(created, key) THEN TypeError
             ELSE BuildMatchMap(file, ms, isGT, i + 1,
                      Put(created, key,
                          Append(Get(created, key), MatchInfo(file, m, i - 1, partner))))

\* matcher.js lines 151-154: (matchPriority[m.match_type] || 2), the value
\* 0 of 'exact' being falsy
Priority(matchType) ==
    LET p == IF matchType = "exact" THEN Num(0)
             ELSE IF matchType \in {"gt_only", "ocr_only"} THEN Num(1)
             ELSE Undefined
    IN  IF Truthy(p) THEN p[2] ELSE 2

\* Array.prototype.sort on the indices ks of an array, by ascending key: a
\* stable insertion sort.
RECURSIVE InsertByKey(_, _, _)
InsertByKey(keyOf, s, x) ==
    IF Len(s) > 0 /\ keyOf[s[Len(s)]] - keyOf[x] > 0
    THEN Append(InsertByKey(keyOf, SubSeq(s, 1, Len(s) - 1), x), s[Len(s)])
    ELSE Append(s, x)

RECURSIVE SortByKey(_, _)
SortByKey(keyOf, ks) ==
    IF Len(ks) = 0 THEN <<>>
    ELSE InsertByKey(keyOf, SortByKey(keyOf, SubSeq(ks, 1, Len(ks) - 1)), ks[Len(ks)])

\* matcher.js line 146: matchMap[normalized].filter(m => !m.used), as the
\* indices in arr of the records kept, ascending.
UnusedIndices(arr) ==
    LET all == [k \in 1..Len(arr) |-> k]
        Unused(k) == ~arr[k].used
    IN  SelectSeq(all, Unused)

\* The index in arr of the record picked for a token, availableMatches being
\* the indices of the unused ones (not empty).
\*   matcher.js lines 149-158: sort by priority, take the first;
\*   preprocessor.js lines 271-285: the exact ones sorted by order, else all
\*   sorted by order, take the first.
PickMatch(file, arr, availableMatches) ==
    IF file = "matcher.js"
    THEN SortByKey([k \in 1..Len(arr) |-> Priority(arr[k].match_type)],
                   availableMatches)[1]
    ELSE LET byOrder == [k \in 1..Len(arr) |-> arr[k].order]
             IsExactInfo(k) == arr[k].match_type = "exact"
             exactMatches == SortByKey(byOrder, SelectSeq(availableMatches, IsExactInfo))
         IN  IF Len(exactMatches) > 0 THEN exactMatches[1]
             ELSE SortByKey(byOrder, availableMatches)[1]

\* matcher.js lines 174-180, preprocessor.js lines 288-293 and 305-311
UnmatchedInfo(isGT) ==
    [match_type |-> IF isGT THEN "gt_only" ELSE "ocr_only",
     matched_with |-> null, edit_distance |-> JsNull, match_id |-> JsNull]

\* matcher.js lines 165-171
Annotation(original, matchInfo) ==
    [word |-> original,
     match_type |-> matchInfo.match_type,
     matched_with |-> matchInfo.matched_with,
     edit_distance |-> matchInfo.edit_distance,
     match_id |-> matchInfo.match_id]

\* matcher.js lines 139-182, preprocessor.js lines 261-313: the loop over
\* wordData.  Where the word names an inherited property that matchMap does
\* not own, "normalized in matchMap" holds and .filter is called on the
\* inherited value.  With the records of a word used up, matcher.js takes
\* the last record again, preprocessor.js marks the token unmatched.
RECURSIVE AnnotateLoop(_, _, _, _, _, _)
AnnotateLoop(file, data, isGT, i, matchMap, out) ==
    IF i > Len(data) THEN Returned(out)
    ELSE LET normalized == data[i].normalized
             original == data[i].original
         IN  IF ~In(normalized, matchMap)
             THEN AnnotateLoop(file, data, isGT, i + 1, matchMap,
                               Append(out, Annotation(original, UnmatchedInfo(isGT))))
             ELSE IF ~HasOwn(matchMap, normalized) THEN TypeError
             ELSE LET arr == Get(matchMap, normalized)
                      availableMatches == UnusedIndices(arr)
                  IN  IF Len(availableMatches) > 0
                      THEN LET k == PickMatch(file, arr, availableMatches)
                           IN  AnnotateLoop(file, data, isGT, i + 1,
                                   Put(matchMap, normalized, [arr EXCEPT ![k].used = TRUE]),
                                   Append(out, Annotation(original, arr[k])))
                      ELSE IF file = "matcher.js"
                      THEN AnnotateLoop(file, data, isGT, i + 1, matchMap,
                                        Append(out, Annotation(original, arr[Len(arr)])))
                      ELSE AnnotateLoop(file, data, isGT, i + 1, matchMap,
                                        Append(out, Annotation(original, UnmatchedInfo(isGT))))

\* createAnnotations(wordData, matches, isGroundTruth) as declared in file
createAnnotationsOf(file, data, ms, isGT) ==
    LET built == BuildMatchMap(file, ms, isGT, 1, EmptyObject)
    IN  IF Threw(built) THEN TypeError
        ELSE AnnotateLoop(file, data, isGT, 1, built.value, <<>>)

\* matcher.js lines 97-185
createAnnotations(data, ms, isGT) == createAnnotationsOf("matcher.js", data, ms, isGT)

----------------------------------------------------------------------------
(* metrics.js: levenshteinDistance *)

\* An element of new Array(n + 1) that was never assigned.
Hole == -1

Min3(a, b, c) == Min2(Min2(a, b), c)

\* Faulty variant of RowCell: the insertion term currRow[j - 1] left out of the minimum.
RowCellNoInsertion(c1, c2, up, left, diag) ==
    IF c1 = c2 THEN diag ELSE 1 + Min2(up, diag)

\* Faulty variant of RowCell: a deletion (the term prevRow[j]) costs two.
RowCellCostlyDeletion(c1, c2, up, left, diag) ==
    IF c1 = c2 THEN diag ELSE 1 + Min3(up + 1, left, diag)

\* Lines 37-46: currRow[j] from str1[i - 1], str2[j - 1], prevRow[j],
\* currRow[j - 1] and prevRow[j - 1]
RowCell(c1, c2, up, left, diag) ==
    IF c1 = c2 THEN diag ELSE 1 + Min3(up, left, diag)

\* Lines 36-47: the loop over j
RECURSIVE FillRow(_, _, _, _, _, _)
FillRow(s1, s2, i, j, prevRow, currRow) ==
    IF j > Len(s2) THEN currRow
    ELSE FillRow(s1, s2, i, j + 1, prevRow,
                 [currRow EXCEPT ![j] = RowCell(s1[i], s2[j], prevRow[j],
                                                currRow[j - 1], prevRow[j - 1])])

\* Lines 33-51: the loop over i, each turn ending with the swap of the rows;
\* the value is prevRow after the last swap.  (The test on filled[0], which
\* line 34 has set to i, makes TLC compute a row before it starts the next
\* turn, so that the depth of the evaluation does not grow with the product
\* of the lengths.)
RECURSIVE FillRows(_, _, _, _, _)
FillRows(s1, s2, i, prevRow, currRow) ==
    IF i > Len(s1) THEN prevRow
    ELSE LET filled == FillRow(s1, s2, i, 1, prevRow, [currRow EXCEPT ![0] = i])
         IN  IF filled[0] = i THEN FillRows(s1, s2, i + 1, filled, prevRow)
             ELSE filled

levenshteinDistance(s1, s2) ==
    LET m == Len(s1)
        n == Len(s2)
    IN  IF m = 0 THEN n
        ELSE IF n = 0 THEN m
        ELSE FillRows(s1, s2, 1, [j \in 0..n |-> j], [j \in 0..n |-> Hole])[n]

----------------------------------------------------------------------------
(* metrics.js: calculateMetrics *)

Abs(x) == IF x < 0 THEN -x ELSE x

RECURSIVE Gcd(_, _)
Gcd(a, b) == IF b = 0 THEN a ELSE Gcd(b, a % b)

Sign(x) == IF x > 0 THEN 1 ELSE IF x < 0 THEN -1 ELSE 0

\* The number n / d: in lowest terms with a positive denominator, or, for
\* d = 0, what the division by zero yields: <<0, 0>> is NaN, <<1, 0>> is
\* Infinity and <<-1, 0>> is -Infinity.
Frac(n, d) ==
    IF d = 0 THEN <<Sign(n), 0>>
    ELSE LET g == Gcd(Abs(n), Abs(d))
         IN  <<Sign(d) * (n \div g), Abs(d) \div g>>

FromInt(n) == <<n, 1>>
FAdd(x, y) == Frac(x[1] * y[2] + y[1] * x[2], x[2] * y[2])
FSub(x, y) == Frac(x[1] * y[2] - y[1] * x[2], x[2] * y[2])
FMul(x, y) == Frac(x[1] * y[1], x[2] * y[2])
FDiv(x, y) == Frac(x[1] * y[2], x[2] * y[1])
\* x > 0; false for NaN
FPositive(x) == x[1] > 0

\* Faulty variant of CountType: what is neither exact nor ocr_only counts as gt_only.
CountTypeElse(ms, t) ==
    IF t = "gt_only"
    THEN Cardinality({i \in DOMAIN ms : ms[i][4] \notin {"exact", "ocr_only"}})
    ELSE Cardinality({i \in DOMAIN ms : ms[i][4] = t})

\* Lines 73-75: matches.filter(m => m[3] === t).length
CountType(ms, t) == Cardinality({i \in DOMAIN ms : ms[i][4] = t})

\* Faulty variant of Ratio: the quotient without the guard.
RatioUnguarded(count, total) == FDiv(FromInt(count), FromInt(total))

\* Lines 83 and 84: total > 0 ? count / total : 0.0
Ratio(count, total) ==
    IF total > 0 THEN FDiv(FromInt(count), FromInt(total)) ELSE FromInt(0)

\* Lines 87-90
F1Score(precision, recall) ==
    IF FPositive(FAdd(precision, recall))
    THEN FDiv(FMul(FromInt(2), FMul(precision, recall)), FAdd(precision, recall))
    ELSE FromInt(0)

\* Faulty variant of Join: the words joined with a space between them.
RECURSIVE JoinSpace(_)
JoinSpace(words) ==
    IF Len(words) = 0 THEN <<>>
    ELSE IF Len(words) = 1 THEN words[1]
    ELSE words[1] \o <<" ">> \o JoinSpace(Tail(words))

\* Lines 99, 100, 125 and 126: words.join('')
RECURSIVE Join(_)
Join(words) == IF Len(words) = 0 THEN <<>> ELSE words[1] \o Join(Tail(words))

\* Faulty variant of Crr: the rate floored at 0.
CrrClamped(charErrors, totalGtChars) ==
    IF totalGtChars > 0 /\ charErrors <= totalGtChars
    THEN FSub(FromInt(1), FDiv(FromInt(charErrors), FromInt(totalGtChars)))
    ELSE FromInt(0)

\* Lines 93, 104-107 and 130-133: avgCrr, 0.0 unless totalGtChars > 0
Crr(charErrors, totalGtChars) ==
    IF totalGtChars > 0
    THEN FSub(FromInt(1), FDiv(FromInt(charErrors), FromInt(totalGtChars)))
    ELSE FromInt(0)

\* Lines 111-123: the words of the records, st = [gt, ocr]
RECURSIVE WordsFromMatches(_, _, _)
WordsFromMatches(ms, i, st) ==
    IF i > Len(ms) THEN st
    ELSE LET gtWord == ms[i][1]
             ocrWord == ms[i][2]
             matchType == ms[i][4]
         IN  WordsFromMatches(ms, i + 1,
                IF matchType = "exact"
                THEN [gt |-> Append(st.gt, gtWord), ocr |-> Append(st.ocr, ocrWord)]
                ELSE IF matchType = "gt_only"
                THEN [gt |-> Append(st.gt, gtWord), ocr |-> st.ocr]
                ELSE IF matchType = "ocr_only"
                THEN [gt |-> st.gt, ocr |-> Append(st.ocr, ocrWord)]
                ELSE st)

\* An optional argument: <<>> when it is left out, <<value>> when it is given.
Supplied(arg) == Len(arg) = 1

\* Lines 73-90: the word-level figures
WordScores(ms) ==
    LET exactCount == CountType(ms, "exact")
        gtOnlyCount == CountType(ms, "gt_only")
        ocrOnlyCount == CountType(ms, "ocr_only")
        totalGtWords == exactCount + gtOnlyCount
        totalOcrWords == exactCount + ocrOnlyCount
        precision == Ratio(exactCount, totalOcrWords)
        recall == Ratio(exactCount, totalGtWords)
    IN  [precision |-> precision,
         recall |-> recall,
         f1_score |-> F1Score(precision, recall),
         exact_matches |-> exactCount,
         total_gt_words |-> totalGtWords,
         total_ocr_words |-> totalOcrWords,
         unmatched_gt |-> gtOnlyCount,
         unmatched_ocr |-> ocrOnlyCount]

\* Lines 92-134: the character-level figures; gtW and ocrW are the optional
\* arguments gtWords and ocrWords.
CharScores(ms, gtW, ocrW) ==
    LET fromMatches == WordsFromMatches(ms, 1, [gt |-> <<>>, ocr |-> <<>>])
        gtText == IF Supplied(gtW) /\ Supplied(ocrW)
                  THEN Join(gtW[1]) ELSE Join(fromMatches.gt)
        ocrText == IF Supplied(gtW) /\ Supplied(ocrW)
                   THEN Join(ocrW[1]) ELSE Join(fromMatches.ocr)
        totalGtChars == Len(gtText)
        charErrors == levenshteinDistance(gtText, ocrText)
    IN  [avg_crr |-> Crr(charErrors, totalGtChars),
         char_errors |-> charErrors,
         total_gt_chars |-> totalGtChars]

\* Lines 136-149: the returned object
calculateMetrics(ms, gtW, ocrW) == WordScores(ms) @@ CharScores(ms, gtW, ocrW)

----------------------------------------------------------------------------
(* table.js (window.TableRenderer): the comparison table. *)

\* Line 10: the names in visibleColumns
Columns == {"precision", "recall", "f1", "crr", "exact"}

\* Lines 48-64: the columns whose header cell is sortable, by the property
\* name handed to handleSort
SortableColumns ==
    {"model_name", "precision", "recall", "f1_score", "avg_crr", "exact_matches"}

\* Lines 7-10: the object before the first renderTable
InitialTableRenderer ==
    [results |-> <<>>,
     sortColumn |-> "f1_score",
     sortAscending |-> FALSE,
     visibleColumns |-> Columns]

\* The characters of model names, in the order localeCompare gives them.
Collation ==
    <<"0", "1", "2", "3", "4", "5", "6", "7", "8", "9",
      "a", "b", "c", "d", "e", "f", "g", "h", "i", "j", "k", "l", "m",
      "n", "o", "p", "q", "r", "s", "t", "u", "v", "w", "x", "y", "z">>

CollationIndex(c) == CHOOSE i \in 1..Len(Collation) : Collation[i] = c

\* a.localeCompare(b) on strings of the characters of Collation: -1, 0 or 1
RECURSIVE localeCompare(_, _)
localeCompare(a, b) ==
    IF Len(a) = 0 THEN (IF Len(b) = 0 THEN 0 ELSE -1)
    ELSE IF Len(b) = 0 THEN 1
    ELSE IF a[1] = b[1] THEN localeCompare(Tail(a), Tail(b))
    ELSE IF CollationIndex(a[1]) < CollationIndex(b[1]) THEN -1 ELSE 1

\* Lines 294 and 295: a.metrics[this.sortColumn] || 0, as a fraction
SortValue(r, sortColumn) ==
    LET v == IF sortColumn = "precision" THEN r.metrics.precision
             ELSE IF sortColumn = "recall" THEN r.metrics.recall
             ELSE IF sortColumn = "f1_score" THEN r.metrics.f1_score
             ELSE IF sortColumn = "avg_crr" THEN r.metrics.avg_crr
             ELSE FromInt(r.metrics.exact_matches)
    IN  IF v = <<0, 0>> THEN FromInt(0) ELSE v

\* Lines 287-307: the comparator of getSortedResults, as the sign of what it
\* returns
CompareResults(tr, a, b) ==
    IF tr.sortColumn = "model_name"
    THEN IF tr.sortAscending
         THEN localeCompare(a.model_name, b.model_name)
         ELSE localeCompare(b.model_name, a.model_name)
    ELSE LET valA == SortValue(a, tr.sortColumn)
             valB == SortValue(b, tr.sortColumn)
         IN  IF tr.sortAscending
             THEN Sign(FSub(valA, valB)[1])
             ELSE Sign(FSub(valB, valA)[1])

\* Array.prototype.sort with that comparator: a stable insertion sort.
RECURSIVE InsertResult(_, _, _)
InsertResult(tr, s, x) ==
    IF Len(s) > 0 /\ CompareResults(tr, s[Len(s)], x) > 0
    THEN Append(InsertResult(tr, SubSeq(s, 1, Len(s) - 1), x), s[Len(s)])
    ELSE Append(s, x)

RECURSIVE SortResults(_, _)
SortResults(tr, rs) ==
    IF Len(rs) = 0 THEN <<>>
    ELSE InsertResult(tr, SortResults(tr, SubSeq(rs, 1, Len(rs) - 1)), rs[Len(rs)])

\* Lines 282-308
getSortedResults(tr) ==
    IF tr.sortColumn = "" THEN tr.results ELSE SortResults(tr, tr.results)

\* Lines 139-150: the title of the rank cell; the cell of a rank above 3
\* shows the number and has no title.
RankTitle(rank) ==
    IF rank = 1 THEN "Champion - Highest F1 Score"
    ELSE IF rank = 2 THEN "2nd Place"
    ELSE IF rank = 3 THEN "3rd Place"
    ELSE ""

\* Lines 113-181: the main row of a ranked result
createTableRow(tr, r, rank) ==
    [rank |-> rank,
     title |-> RankTitle(rank),
     model_name |-> r.model_name,
     f1_score |-> r.metrics.f1_score,
     cells |-> tr.visibleColumns]

\* Lines 19-35 and 88-111: the main rows of the table that updateTable puts
\* in place of the old one; the rank of a row is its index in the sorted
\* list plus one.
updateTable(tr) ==
    LET sortedResults == getSortedResults(tr)
    IN  [i \in 1..Len(sortedResults) |-> createTableRow(tr, sortedResults[i], i)]

\* Lines 272-278: the assignments of handleSort
handleSort(tr, column) ==
    IF tr.sortColumn = column
    THEN [tr EXCEPT !.sortAscending = ~tr.sortAscending]
    ELSE [tr EXCEPT !.sortColumn = column, !.sortAscending = TRUE]

\* Lines 314-319: the body of a change handler of a column checkbox
toggleColumn(tr, column, checked) ==
    [tr EXCEPT !.visibleColumns =
        IF checked THEN @ \cup {column} ELSE @ \ {column}]

\* No handler on the export button and none on a column checkbox.
NoListeners == [export |-> 0, toggle |-> 0]

\* Lines 310-328: setupColumnToggles and setupCSVExport add one handler, a
\* new function each time, to every column checkbox and to the export
\* button; nothing removes a handler.
addListeners(ls) == [export |-> ls.export + 1, toggle |-> ls.toggle + 1]

\* What the last operation on the table did: the calls of exportToCSV and
\* of updateTable that it, or the handlers it set off, made.
Effects(event, exports, renders) ==
    [event |-> event, exports |-> exports, renders |-> renders]

NoEffects == Effects("none", 0, 0)

\* Lines 51-65: the name in visibleColumns of the column whose
\* header cell hands column to handleSort; the Model header always shows.
ColumnKey(column) ==
    IF column = "precision" THEN "precision"
    ELSE IF column = "recall" THEN "recall"
    ELSE IF column = "f1_score" THEN "f1"
    ELSE IF column = "avg_crr" THEN "crr"
    ELSE IF column = "exact_matches" THEN "exact"
    ELSE "model_name"

----------------------------------------------------------------------------
(* batch-mode.js: handleBatchAnalyze *)

\* File names and their parts, as character sequences.
GtTxt == <<"g", "t", ".", "t", "x", "t">>
OutTxt == <<"_", "o", "u", "t", ".", "t", "x", "t">>
DotTxt == <<".", "t", "x", "t">>

\* String.prototype.endsWith
EndsWith(s, suffix) ==
    /\ Len(s) >= Len(suffix)
    /\ SubSeq(s, Len(s) - Len(suffix) + 1, Len(s)) = suffix

\* s.replace(pattern, '') with a string pattern: the first occurrence goes
ReplaceFirst(s, pattern) ==
    LET starts == {i \in 1..(Len(s) - Len(pattern) + 1) :
                      SubSeq(s, i, i + Len(pattern) - 1) = pattern}
    IN  IF starts = {} THEN s
        ELSE LET i == CHOOSE k \in starts : \A j \in starts : k <= j
             IN  SubSeq(s, 1, i - 1) \o SubSeq(s, i + Len(pattern), Len(s))

\* A File object: its name and the text readAsText yields.
File(name, txt) == [name |-> name, text |-> txt]

\* Line 43: files.filter(file => file.name.endsWith('.txt'))
TxtFiles(files) == SelectSeq(files, LAMBDA f : EndsWith(f.name, DotTxt))

\* Lines 154-163 with every read succeeding: the object readAllFiles
\* resolves to, from file i on
RECURSIVE readAllFiles(_, _, _)
readAllFiles(files, i, fileContents) ==
    IF i > Len(files) THEN fileContents
    ELSE readAllFiles(files, i + 1, Put(fileContents, files[i].name, files[i].text))

\* Line 110
ModelFiles(fileContents) ==
    SelectSeq(ObjectKeys(fileContents), LAMBDA name : EndsWith(name, OutTxt))

\* Lines 136-141: the object pushed to results, from the name, the metrics
\* and the outcomes of the two calls of createAnnotations; an exception in
\* either call leaves the turn.
ModelResult(modelName, scores, gtAnn, ocrAnn) ==
    IF Threw(gtAnn) \/ Threw(ocrAnn) THEN TypeError
    ELSE Returned([model_name |-> modelName,
                   metrics |-> scores,
                   gt_annotations |-> gtAnn.value,
                   ocr_annotations |-> ocrAnn.value])

\* Lines 130-141, for the declaration of createAnnotations in force
ScoreMatches(file, modelName, gt, ocr, ms) ==
    ModelResult(modelName,
                calculateMetrics(ms, <<gt.words>>, <<ocr.words>>),
                createAnnotationsOf(file, gt.wordData, ms, TRUE),
                createAnnotationsOf(file, ocr.wordData, ms, FALSE))

\* Lines 127-141
ScoreWords(file, modelName, gt, ocr) ==
    ScoreMatches(file, modelName, gt, ocr, matchWords(gt.words, ocr.words))

\* Lines 119-141: one turn of the loop
ScoreModel(file, modelFile, groundTruthText, fileContents, cfg) ==
    ScoreWords(file, ReplaceFirst(modelFile, OutTxt),
               preprocessText(groundTruthText, cfg),
               preprocessText(Get(fileContents, modelFile), cfg))

\* The results of a turn followed by the results of the turns after it; an
\* exception in any of them is the outcome of the loop.
PushResult(turn, rest) ==
    IF Threw(turn) \/ Threw(rest) THEN TypeError
    ELSE Returned(<<turn.value>> \o rest.value)

\* Lines 117-142: the loop from model file i on
RECURSIVE ScoreLoop(_, _, _, _, _, _)
ScoreLoop(file, modelFiles, i, groundTruthText, fileContents, cfg) ==
    IF i > Len(modelFiles) THEN Returned(<<>>)
    ELSE PushResult(ScoreModel(file, modelFiles[i], groundTruthText, fileContents, cfg),
                    ScoreLoop(file, modelFiles, i + 1, groundTruthText,
                              fileContents, cfg))

\* Line 148: the messages of the error box; the message of a TypeError
\* names, before these words, the expression that was called.
NoGroundTruth == "Error: Ground truth file (gt.txt) not found"
NoModelFiles == "Error: No model output files found (must end with _out.txt)"
NotAFunction == "Error: ... is not a function"

\* What the try block hands on: the results it displays, or the message of
\* the exception it raises.
Displays(results) == [displayed |-> TRUE, results |-> results, message |-> ""]
Raises(message) == [displayed |-> FALSE, results |-> <<>>, message |-> message]

\* Lines 112-145: the try block from the list of model files on
AnalyzeModels(modelFiles, scored) ==
    IF Len(modelFiles) = 0 THEN Raises(NoModelFiles)
    ELSE IF Threw(scored) THEN Raises(NotAFunction)
    ELSE Displays(scored.value)

\* Lines 107-145
AnalyzeFiles(file, groundTruthText, modelFiles, fileContents, cfg) ==
    AnalyzeModels(modelFiles,
                  ScoreLoop(file, modelFiles, 1, groundTruthText, fileContents, cfg))

\* Lines 102-148: what the try block does once readAllFiles has resolved to
\* fileContents; an empty text is falsy in line 103.
Analyze(file, fileContents, cfg) ==
    IF ~HasOwn(fileContents, GtTxt) \/ Len(Get(fileContents, GtTxt)) = 0
    THEN Raises(NoGroundTruth)
    ELSE AnalyzeFiles(file, Get(fileContents, GtTxt), ModelFiles(fileContents),
                      fileContents, cfg)

\* app.js lines 51-62: the error box, its text and whether it shows.
NoError == [textContent |-> "", shown |-> FALSE]
showError(message) == [textContent |-> message, shown |-> TRUE]
hideError(box) == [box EXCEPT !.shown = FALSE]

\* batch-mode.js lines 144-151 and 174-185, table.js lines 12-17: the end of
\* the try block or the catch block, then the finally block, box being the
\* error box as line 96 left it.  The results are handed to renderTable,
\* or the message to showError; the loading indicator is hidden.
Conclude(analysis, box) ==
    /\ loading' = FALSE
    /\ batchResults' = IF analysis.displayed THEN analysis.results ELSE batchResults
    /\ tableRenderer' = IF analysis.displayed
                        THEN [tableRenderer EXCEPT !.results = analysis.results]
                        ELSE tableRenderer
    /\ tableRows' = IF analysis.displayed THEN updateTable(tableRenderer')
                    ELSE tableRows
    /\ listeners' = IF analysis.displayed THEN addListeners(listeners) ELSE listeners
    /\ effects' = IF analysis.displayed THEN Effects("render", 0, 1) ELSE effects
    /\ errorBox' = IF analysis.displayed THEN box ELSE showError(analysis.message)

----------------------------------------------------------------------------
(* The word matcher: one call of matchWords on any two word lists. *)

\* The value of metrics before calculateMetrics has returned.
NoMetrics == [returned |-> FALSE]

\* The value of result before preprocessText has returned.
NoResult == [words |-> <<>>, wordData |-> <<>>]

\* An object without any of the three options: {}.
NoConfig == Config(<<>>, <<>>, <<>>)

\* No call of preprocessText, of createAnnotations, no turn of the scoring
\* loop.
NoPreprocess == text = <<>> /\ result = NoResult

NoAnnotate == wordData = <<>> /\ isGroundTruth = TRUE /\ annotations = NotCalled

NoLoop ==
    /\ groundTruth = <<>>
    /\ ocrOutput = <<>>
    /\ gtResult = NoResult
    /\ ocrResult = NoResult
    /\ gtAnnotations = NotCalled
    /\ ocrAnnotations = NotCalled

\* The batch page as it loads: nothing selected, nothing analysed.
NoPage ==
    /\ uploadedFiles = <<>>
    /\ batchResults = <<>>
    /\ errorBox = NoError
    /\ loading = FALSE
    /\ calls = <<>>
    /\ tableRenderer = InitialTableRenderer
    /\ tableRows = <<>>
    /\ listeners = NoListeners
    /\ effects = NoEffects

Init ==
    /\ gtWords \in SeqsUpTo(Vocabulary, MaxGtWords)
    /\ ocrWords \in SeqsUpTo(Vocabulary, MaxOcrWords)
    /\ matches = <<>>
    /\ pc = "start"
    /\ argMatches = <<>>
    /\ argGtWords = <<>>
    /\ argOcrWords = <<>>
    /\ metrics = NoMetrics
    /\ str1 = <<>>
    /\ str2 = <<>>
    /\ distance = 0
    /\ NoPreprocess /\ NoAnnotate /\ NoLoop /\ NoPage
    /\ config = NoConfig
    /\ loaded = "matcher.js"

MatchWords ==
    /\ pc = "start"
    /\ matches' = matchWords(gtWords, ocrWords)
    /\ pc' = "done"
    /\ UNCHANGED <<gtWords, ocrWords, argMatches, argGtWords, argOcrWords,
                   metrics, str1, str2, distance>>
    /\ UNCHANGED <<config, loaded, preprocessVars, annotateVars, loopVars, pageVars>>

Next == MatchWords

Spec == Init /\ [][Next]_vars

----------------------------------------------------------------------------
(* The scorer: one call of calculateMetrics on any match list, with or     *)
(* without the optional word lists.                                        *)

\* The records the match lists are drawn from: the three types matchWords
\* produces and one record of another type.
MatchRecords ==
    {ExactRecord(w) : w \in MetricWords}
        \cup {GtOnlyRecord(w) : w \in MetricWords}
        \cup {OcrOnlyRecord(w) : w \in MetricWords}
        \cup {<<wA, wB, Num(1), "fuzzy">>}

OptionalWordLists == {<<>>} \cup {<<l>> : l \in SeqsUpTo(MetricWords, MaxArgWords)}

InitMetrics ==
    /\ argMatches \in SeqsUpTo(MatchRecords, MaxMatches)
    /\ argGtWords \in OptionalWordLists
    /\ argOcrWords \in OptionalWordLists
    /\ metrics = NoMetrics
    /\ pc = "start"
    /\ gtWords = <<>>
    /\ ocrWords = <<>>
    /\ matches = <<>>
    /\ str1 = <<>>
    /\ str2 = <<>>
    /\ distance = 0
    /\ NoPreprocess /\ NoAnnotate /\ NoLoop /\ NoPage
    /\ config = NoConfig
    /\ loaded = "matcher.js"

\* Faulty variant of CalculateMetrics: the call takes the first record off
\* the list it was given.
CalculateMetricsShifting ==
    /\ pc = "start"
    /\ metrics' = calculateMetrics(argMatches, argGtWords, argOcrWords)
    /\ argMatches' = IF Len(argMatches) = 0 THEN argMatches ELSE Tail(argMatches)
    /\ pc' = "done"
    /\ UNCHANGED <<gtWords, ocrWords, matches, argGtWords,
                   argOcrWords, str1, str2, distance>>
    /\ UNCHANGED <<config, loaded, preprocessVars, annotateVars, loopVars, pageVars>>

CalculateMetrics ==
    /\ pc = "start"
    /\ metrics' = calculateMetrics(argMatches, argGtWords, argOcrWords)
    /\ pc' = "done"
    /\ UNCHANGED <<gtWords, ocrWords, matches, argMatches, argGtWords,
                   argOcrWords, str1, str2, distance>>
    /\ UNCHANGED <<config, loaded, preprocessVars, annotateVars, loopVars, pageVars>>

NextMetrics == CalculateMetrics

SpecMetrics == InitMetrics /\ [][NextMetrics]_vars

----------------------------------------------------------------------------
(* The scorer called twice: a second call of calculateMetrics on the        *)
(* arguments of the first.  The function assigns to locals only (lines      *)
(* 73-134) and builds its arrays with filter, so a call leaves its          *)
(* arguments as they were.                                                  *)

CalculateMetricsAgain ==
    /\ pc = "done"
    /\ metrics' = calculateMetrics(argMatches, argGtWords, argOcrWords)
    /\ pc' = "again"
    /\ UNCHANGED <<gtWords, ocrWords, matches, argMatches, argGtWords,
                   argOcrWords, str1, str2, distance>>
    /\ UNCHANGED <<config, loaded, preprocessVars, annotateVars, loopVars, pageVars>>

NextRepeat == CalculateMetrics \/ CalculateMetricsAgain

SpecRepeat == InitMetrics /\ [][NextRepeat]_vars

----------------------------------------------------------------------------
(* The edit distance: one call of levenshteinDistance on any two strings.  *)

InitLevenshtein ==
    /\ str1 \in SeqsUpTo(Alphabet, MaxStrLen)
    /\ str2 \in SeqsUpTo(Alphabet, MaxStrLen)
    /\ distance = 0
    /\ pc = "start"
    /\ gtWords = <<>>
    /\ ocrWords = <<>>
    /\ matches = <<>>
    /\ argMatches = <<>>
    /\ argGtWords = <<>>
    /\ argOcrWords = <<>>
    /\ metrics = NoMetrics
    /\ NoPreprocess /\ NoAnnotate /\ NoLoop /\ NoPage
    /\ config = NoConfig
    /\ loaded = "matcher.js"

LevenshteinDistance ==
    /\ pc = "start"
    /\ distance' = levenshteinDistance(str1, str2)
    /\ pc' = "done"
    /\ UNCHANGED <<gtWords, ocrWords, matches, argMatches, argGtWords,
                   argOcrWords, metrics, str1, str2>>
    /\ UNCHANGED <<config, loaded, preprocessVars, annotateVars, loopVars, pageVars>>

NextLevenshtein == LevenshteinDistance

SpecLevenshtein == InitLevenshtein /\ [][NextLevenshtein]_vars

----------------------------------------------------------------------------
(* The preprocessor: one call of preprocessText on any text and any         *)
(* configuration object.                                                    *)

MaxTextLen == 5

\* The characters of the texts: a letter in both cases, a punctuation
\* character, the space.
TextChars == {"a", "A", "-", " "}

\* 'Invoice Number: INV-2024-001' (tests/test-metrics.js line 409)
InvoiceText ==
    <<"I", "n", "v", "o", "i", "c", "e", " ",
      "N", "u", "m", "b", "e", "r", ":", " ",
      "I", "N", "V", "-", "2", "0", "2", "4", "-", "0", "0", "1">>

\* 'hello\tworld\ntest' (tests/test-metrics.js line 357), shortened to one
\* letter a word
TabsAndNewlines == <<"a", "\t", "A", "\n", "a">>

\* '... !!!' (tests/test-metrics.js line 402)
DotsAndBangs == <<".", ".", ".", " ", "!", "!", "!">>

ExampleTexts == {InvoiceText, TabsAndNewlines, DotsAndBangs}

\* An option that is absent, true or false.
FlagOptions == {<<>>, <<TRUE>>, <<FALSE>>}

\* punctuation_chars absent, the empty string, or the string '.'.
PunctuationOptions == {<<>>, << <<>> >>, << <<".">> >>}

Configs ==
    {Config(i, c, p) : i \in FlagOptions, c \in FlagOptions, p \in PunctuationOptions}

InitPreprocess ==
    /\ text \in SeqsUpTo(TextChars, MaxTextLen) \cup ExampleTexts
    /\ config \in Configs
    /\ result = NoResult
    /\ pc = "start"
    /\ loaded = "matcher.js"
    /\ gtWords = <<>>
    /\ ocrWords = <<>>
    /\ matches = <<>>
    /\ argMatches = <<>>
    /\ argGtWords = <<>>
    /\ argOcrWords = <<>>
    /\ metrics = NoMetrics
    /\ str1 = <<>>
    /\ str2 = <<>>
    /\ distance = 0
    /\ NoAnnotate /\ NoLoop /\ NoPage

PreprocessText ==
    /\ pc = "start"
    /\ result' = preprocessText(text, config)
    /\ pc' = "done"
    /\ UNCHANGED <<text, config, loaded, matches, argMatches, metrics,
                   scoringVars, annotateVars, loopVars, pageVars>>

NextPreprocess == PreprocessText

SpecPreprocess == InitPreprocess /\ [][NextPreprocess]_vars

----------------------------------------------------------------------------
(* The annotator: one call of createAnnotations, as declared in either      *)
(* file, on any token list and any match list.                              *)

MaxTokens == 3

\* The tokens of the lists: a normalized word and its surface form.
TokenKinds ==
    {<<wA, <<"A">>>>, <<wA, <<"a", ".">>>>, <<wB, <<"b">>>>,
     <<wConstructor, wConstructor>>}

\* The list preprocessText builds from tokens: position i at index i.
WordDataOf(tokens) ==
    [i \in DOMAIN tokens |->
        [normalized |-> tokens[i][1], original |-> tokens[i][2], position |-> i - 1]]

\* The records of the match lists.
AnnotateRecords ==
    {ExactRecord(wA), GtOnlyRecord(wA), OcrOnlyRecord(wA), ExactRecord(wB),
     GtOnlyRecord(wConstructor)}

InitAnnotate ==
    /\ wordData \in {WordDataOf(ts) : ts \in SeqsUpTo(TokenKinds, MaxTokens)}
    /\ argMatches \in SeqsUpTo(AnnotateRecords, MaxMatches)
    /\ isGroundTruth \in BOOLEAN
    /\ loaded \in Files
    /\ annotations = NotCalled
    /\ pc = "start"
    /\ config = NoConfig
    /\ gtWords = <<>>
    /\ ocrWords = <<>>
    /\ matches = <<>>
    /\ argGtWords = <<>>
    /\ argOcrWords = <<>>
    /\ metrics = NoMetrics
    /\ str1 = <<>>
    /\ str2 = <<>>
    /\ distance = 0
    /\ NoPreprocess /\ NoLoop /\ NoPage

CreateAnnotations ==
    /\ pc = "start"
    /\ annotations' = createAnnotationsOf(loaded, wordData, argMatches, isGroundTruth)
    /\ pc' = "done"
    /\ UNCHANGED <<wordData, isGroundTruth, argMatches, config, loaded, matches,
                   metrics, scoringVars, preprocessVars, loopVars, pageVars>>

NextAnnotate == CreateAnnotations

SpecAnnotate == InitAnnotate /\ [][NextAnnotate]_vars

----------------------------------------------------------------------------
(* The scoring loop of handleBatchAnalyze (batch-mode.js lines 116-142):    *)
(* one turn, on any ground truth text and any model text, under any         *)
(* configuration the page produces.                                         *)

MaxGroundTruthTokens == 2
MaxOcrOutputTokens == 1

\* The whitespace-separated tokens of the two texts.
SurfaceTokens == {<<"A">>, <<"a", ".">>, wConstructor}

\* The tokens joined by single spaces.
RECURSIVE TextOf(_)
TextOf(tokens) ==
    IF Len(tokens) = 0 THEN <<>>
    ELSE IF Len(tokens) = 1 THEN tokens[1]
    ELSE tokens[1] \o <<" ">> \o TextOf(Tail(tokens))

\* app.js lines 8-14: AppConfig.getConfig(), the two checkboxes
AppConfigs == {Config(<<i>>, <<c>>, <<>>) : i \in BOOLEAN, c \in BOOLEAN}

InitLoop ==
    /\ groundTruth \in {TextOf(ts) : ts \in SeqsUpTo(SurfaceTokens, MaxGroundTruthTokens)}
    /\ ocrOutput \in {TextOf(ts) : ts \in SeqsUpTo(SurfaceTokens, MaxOcrOutputTokens)}
    /\ config \in AppConfigs
    /\ loaded \in Files
    /\ gtResult = NoResult
    /\ ocrResult = NoResult
    /\ matches = <<>>
    /\ metrics = NoMetrics
    /\ gtAnnotations = NotCalled
    /\ ocrAnnotations = NotCalled
    /\ pc = "start"
    /\ gtWords = <<>>
    /\ ocrWords = <<>>
    /\ argMatches = <<>>
    /\ argGtWords = <<>>
    /\ argOcrWords = <<>>
    /\ str1 = <<>>
    /\ str2 = <<>>
    /\ distance = 0
    /\ NoPreprocess /\ NoAnnotate /\ NoPage

\* Lines 121-141: the body of the loop.  An exception leaves the loop for
\* the catch block of line 146 (pc = "error"); the calls after the one that
\* raised it are not made.
ProcessModel ==
    /\ pc = "start"
    /\ LET gt == preprocessText(groundTruth, config)
           ocr == preprocessText(ocrOutput, config)
           ms == matchWords(gt.words, ocr.words)
           gtAnn == createAnnotationsOf(loaded, gt.wordData, ms, TRUE)
           ocrAnn == IF Threw(gtAnn) THEN NotCalled
                     ELSE createAnnotationsOf(loaded, ocr.wordData, ms, FALSE)
       IN  /\ gtResult' = gt
           /\ ocrResult' = ocr
           /\ matches' = ms
           /\ metrics' = calculateMetrics(ms, <<gt.words>>, <<ocr.words>>)
           /\ gtAnnotations' = gtAnn
           /\ ocrAnnotations' = ocrAnn
           /\ pc' = IF Threw(gtAnn) \/ Threw(ocrAnn) THEN "error" ELSE "done"
    /\ UNCHANGED <<groundTruth, ocrOutput, config, loaded, argMatches,
                   scoringVars, preprocessVars, annotateVars, pageVars>>

NextLoop == ProcessModel

SpecLoop == InitLoop /\ [][NextLoop]_vars

----------------------------------------------------------------------------
(* The batch page: a selection of files, then one click on the analyse     *)
(* button, whose handler runs to its end before anything else happens.     *)

MaxFiles == 3

\* The names of the files the user selects from: the ground truth, two
\* model outputs and a file that is no text file.
FileNames ==
    {GtTxt, <<"m", "1">> \o OutTxt, <<"m", "2">> \o OutTxt, <<"r", ".", "m", "d">>}

\* The texts of the files.
FileTexts == {<<>>, <<"A">>, <<"a", ".">>, wConstructor}

\* The selections: files of distinct names, in any order.
Selections ==
    {fs \in SeqsUpTo({File(n, t) : n \in FileNames, t \in FileTexts}, MaxFiles) :
        \A i, j \in DOMAIN fs : i # j => fs[i].name # fs[j].name}

\* The variables of the single calls of the sections above, and their idle
\* values.
callVars == <<matches, argMatches, metrics, scoringVars, preprocessVars,
              annotateVars, loopVars>>

NoCalls ==
    /\ matches = <<>>
    /\ argMatches = <<>>
    /\ metrics = NoMetrics
    /\ gtWords = <<>>
    /\ ocrWords = <<>>
    /\ argGtWords = <<>>
    /\ argOcrWords = <<>>
    /\ str1 = <<>>
    /\ str2 = <<>>
    /\ distance = 0
    /\ NoPreprocess /\ NoAnnotate /\ NoLoop

InitBatch ==
    /\ pc = "start"
    /\ config \in AppConfigs
    /\ loaded \in Files
    /\ NoCalls /\ NoPage

\* batch-mode.js lines 39-58: handleFileSelect on any selection, as long as
\* no selection has been accepted
HandleFileSelect ==
    /\ pc = "start"
    /\ \E files \in Selections :
          LET txtFiles == TxtFiles(files)
          IN  IF Len(txtFiles) = 0
              THEN /\ errorBox' = showError("Please select .txt files only")
                   /\ UNCHANGED <<uploadedFiles, pc>>
              ELSE /\ uploadedFiles' = txtFiles
                   /\ pc' = "selected"
                   /\ UNCHANGED errorBox
    /\ UNCHANGED <<batchResults, loading, calls, tableRenderer, tableRows,
                   listeners, effects, config, loaded, callVars>>

\* batch-mode.js lines 85-152 and 174-185, table.js lines 12-17:
\* handleBatchAnalyze from the click to the end of its finally block, every
\* file being read without an error.
HandleBatchAnalyze ==
    /\ pc \in {"start", "selected"}
    /\ IF Len(uploadedFiles) = 0
       THEN /\ errorBox' = showError("Please select files first")
            /\ UNCHANGED <<pc, batchResults, loading, tableRenderer, tableRows,
                           listeners, effects>>
       ELSE /\ pc' = "done"
            /\ Conclude(Analyze(loaded, readAllFiles(uploadedFiles, 1, EmptyObject),
                                config),
                        hideError(errorBox))
    /\ UNCHANGED <<uploadedFiles, calls, config, loaded, callVars>>

NextBatch == HandleFileSelect \/ HandleBatchAnalyze

SpecBatch == InitBatch /\ [][NextBatch]_vars

----------------------------------------------------------------------------
(* The scoring of two word lists as the two modes do it: matchWords, then  *)
(* calculateMetrics without the word lists (manual mode) or with them      *)
(* (batch mode).                                                           *)

MaxScoreWords == 3

\* The words of the example of README.md lines 240-246 and 378-396, as
\* the default configuration normalizes them.
wThe == <<"t", "h", "e">>
wQuick == <<"q", "u", "i", "c", "k">>
wQuik == <<"q", "u", "i", "k">>
wBrown == <<"b", "r", "o", "w", "n">>
wFox == <<"f", "o", "x">>
ReadmeGroundTruth == <<wThe, wQuick, wBrown, wFox>>
ReadmeOcrOutput == <<wThe, wQuik, wBrown>>

InitScore ==
    /\ gtWords \in SeqsUpTo(MetricWords, MaxScoreWords) \cup {ReadmeGroundTruth}
    /\ ocrWords \in SeqsUpTo(MetricWords, MaxScoreWords) \cup {ReadmeOcrOutput}
    /\ matches = <<>>
    /\ metrics = NoMetrics
    /\ pc = "start"
    /\ argMatches = <<>>
    /\ argGtWords = <<>>
    /\ argOcrWords = <<>>
    /\ str1 = <<>>
    /\ str2 = <<>>
    /\ distance = 0
    /\ NoPreprocess /\ NoAnnotate /\ NoLoop /\ NoPage
    /\ config = NoConfig
    /\ loaded = "matcher.js"

\* The manual mode handler handleAnalyze, lines 55-58: calculateMetrics(matches)
ScoreManual ==
    /\ pc = "start"
    /\ matches' = matchWords(gtWords, ocrWords)
    /\ metrics' = calculateMetrics(matches', <<>>, <<>>)
    /\ pc' = "manual"
    /\ UNCHANGED <<gtWords, ocrWords, argMatches, argGtWords, argOcrWords,
                   str1, str2, distance>>
    /\ UNCHANGED <<config, loaded, preprocessVars, annotateVars, loopVars, pageVars>>

\* batch-mode.js lines 127-130: calculateMetrics(matches, gtResult.words,
\* ocrResult.words)
ScoreBatch ==
    /\ pc = "start"
    /\ matches' = matchWords(gtWords, ocrWords)
    /\ metrics' = calculateMetrics(matches', <<gtWords>>, <<ocrWords>>)
    /\ pc' = "batch"
    /\ UNCHANGED <<gtWords, ocrWords, argMatches, argGtWords, argOcrWords,
                   str1, str2, distance>>
    /\ UNCHANGED <<config, loaded, preprocessVars, annotateVars, loopVars, pageVars>>

NextScore == ScoreManual \/ ScoreBatch

SpecScore == InitScore /\ [][NextScore]_vars

----------------------------------------------------------------------------
(* The comparison table in one page session: batch results rendered any    *)
(* number of times, headers clicked, column checkboxes changed, the export *)
(* button clicked.  The checkboxes and the export button are elements of   *)
(* the page that outlive the table; the header cells are made anew by      *)
(* every updateTable.  The detail rows are left out.                       *)

MaxRows == 3
MaxRenders == 2

\* The model names of the results.
ModelNames == {<<"m", "1">>, <<"m", "2">>, <<"m", "3">>}

\* The scorecards of the results: calculateMetrics on two match lists, with
\* F1 scores 2/3 and 1.
Scorecards ==
    {calculateMetrics(ms, <<>>, <<>>) :
        ms \in {<<ExactRecord(wA), OcrOnlyRecord(wB)>>, <<ExactRecord(wA)>>}}

\* The result lists handed to renderTable: models of distinct names.
ResultLists ==
    {rs \in SeqsUpTo({[model_name |-> n, metrics |-> m] :
                         n \in ModelNames, m \in Scorecards}, MaxRows) :
        \A i, j \in DOMAIN rs : i # j => rs[i].model_name # rs[j].model_name}

\* The checkbox that is changed.
ToggledColumns == {"f1"}

InitTable ==
    /\ pc = "start"
    /\ config = NoConfig
    /\ loaded = "matcher.js"
    /\ NoCalls /\ NoPage

\* table.js lines 12-17: renderTable(results)
RenderTable ==
    /\ listeners.export < MaxRenders
    /\ \E rs \in ResultLists :
          LET tr == [tableRenderer EXCEPT !.results = rs]
          IN  /\ tableRenderer' = tr
              /\ tableRows' = updateTable(tr)
    /\ listeners' = addListeners(listeners)
    /\ effects' = Effects("render", 0, 1)
    /\ pc' = "rendered"
    /\ UNCHANGED <<uploadedFiles, batchResults, errorBox, loading, calls, config,
                   loaded, callVars>>

\* Lines 77 and 272-280: a click on the header cell of a sortable column
\* of the table on the page
HandleSort ==
    /\ pc = "rendered"
    /\ \E column \in SortableColumns :
          /\ ColumnKey(column) \in tableRenderer.visibleColumns \cup {"model_name"}
          /\ LET tr == handleSort(tableRenderer, column)
             IN  /\ tableRenderer' = tr
                 /\ tableRows' = updateTable(tr)
    /\ effects' = Effects("sort", 0, 1)
    /\ UNCHANGED <<pc, listeners, uploadedFiles, batchResults, errorBox, loading,
                   calls, config, loaded, callVars>>

\* Lines 310-323: one change of a column checkbox; every handler on it runs
\* once, each setting the column and calling updateTable.
ChangeToggle ==
    /\ \E column \in ToggledColumns, checked \in BOOLEAN :
          LET tr == IF listeners.toggle = 0 THEN tableRenderer
                    ELSE toggleColumn(tableRenderer, column, checked)
          IN  /\ tableRenderer' = tr
              /\ tableRows' = IF listeners.toggle = 0 THEN tableRows
                              ELSE updateTable(tr)
    /\ effects' = Effects("change", 0, listeners.toggle)
    /\ UNCHANGED <<pc, listeners, uploadedFiles, batchResults, errorBox, loading,
                   calls, config, loaded, callVars>>

\* Lines 325-328: one click on the export button; every handler on it runs
\* once, each calling exportToCSV.
ClickExport ==
    /\ effects' = Effects("export", listeners.export, 0)
    /\ UNCHANGED <<pc, tableRenderer, tableRows, listeners, uploadedFiles,
                   batchResults, errorBox, loading, calls, config, loaded, callVars>>

NextTable == RenderTable \/ HandleSort \/ ChangeToggle \/ ClickExport

SpecTable == InitTable /\ [][NextTable]_vars

----------------------------------------------------------------------------
(* Overlapping batch analyses: the analyse button clicked again while an   *)
(* earlier invocation of handleBatchAnalyze awaits its files.  An          *)
(* invocation runs from the click to its first await, then from each       *)
(* FileReader event to the next await or to the end of its finally block.  *)
(* The timer that hides the error box after five seconds is left out.      *)

MaxClicks == 2

\* The uploads: a complete batch, a batch whose model raises the TypeError,
\* a batch without ground truth, a batch without model and no file at all.
Uploads ==
    {<<File(GtTxt, <<"A">>), File(<<"m", "1">> \o OutTxt, <<"a", ".">>)>>,
     <<File(GtTxt, <<"A">>), File(<<"m", "1">> \o OutTxt, wConstructor)>>,
     <<File(<<"m", "1">> \o OutTxt, <<"A">>)>>,
     <<File(GtTxt, <<"A">>)>>,
     <<>>}

\* An invocation that awaits the FileReader of files[next], and one that
\* has left its finally block.
Reading(files, next, fileContents) ==
    [stage |-> "reading", files |-> files, next |-> next,
     fileContents |-> fileContents]

Finished(call) == [call EXCEPT !.stage = "finished"]

\* The invocations that are between showLoading and the finally block.
InFlight == {i \in DOMAIN calls : calls[i].stage = "reading"}

InitOverlap ==
    /\ pc = "start"
    /\ config \in AppConfigs
    /\ loaded \in Files
    /\ NoCalls
    /\ uploadedFiles \in Uploads
    /\ batchResults = <<>>
    /\ errorBox = NoError
    /\ loading = FALSE
    /\ calls = <<>>
    /\ tableRenderer = InitialTableRenderer
    /\ tableRows = <<>>
    /\ listeners = NoListeners
    /\ effects = NoEffects

\* batch-mode.js lines 85-100 and 154-158: a click on the analyse button,
\* up to the await of the first file
ClickAnalyze ==
    /\ Len(calls) < MaxClicks
    /\ IF Len(uploadedFiles) = 0
       THEN /\ errorBox' = showError("Please select files first")
            /\ UNCHANGED <<calls, loading>>
       ELSE /\ calls' = Append(calls, Reading(uploadedFiles, 1, EmptyObject))
            /\ loading' = TRUE
            /\ errorBox' = hideError(errorBox)
    /\ UNCHANGED <<pc, uploadedFiles, batchResults, tableRenderer, tableRows,
                   listeners, effects, config, loaded, callVars>>

\* Lines 168 and 158-160: the file an invocation awaits is read, and it is
\* not the last one; the invocation goes on to await its next file.
FileLoaded ==
    \E i \in InFlight :
        /\ calls[i].next < Len(calls[i].files)
        /\ calls' = [calls EXCEPT ![i] =
                        Reading(calls[i].files, calls[i].next + 1,
                                Put(calls[i].fileContents,
                                    calls[i].files[calls[i].next].name,
                                    calls[i].files[calls[i].next].text))]
        /\ UNCHANGED <<loading, errorBox, batchResults, tableRenderer, tableRows,
                       listeners, effects, pc, uploadedFiles, config, loaded,
                       callVars>>

\* Lines 168 and 158-162, then lines 100-151: the last file of an
\* invocation is read; readAllFiles resolves and the invocation goes
\* through the rest of the try block, displaying the results or showing the
\* message of the exception, and through the finally block.
LastFileLoaded ==
    \E i \in InFlight :
        /\ calls[i].next = Len(calls[i].files)
        /\ calls' = [calls EXCEPT ![i] =
                        Finished(Reading(calls[i].files, calls[i].next,
                                         Put(calls[i].fileContents,
                                             calls[i].files[calls[i].next].name,
                                             calls[i].files[calls[i].next].text)))]
        /\ Conclude(Analyze(loaded, calls'[i].fileContents, config), errorBox)
        /\ UNCHANGED <<pc, uploadedFiles, config, loaded, callVars>>

\* Lines 169 and 147-151: the FileReader of the file an invocation awaits
\* fails; the rejection reaches the catch block and the finally block.
FileFailed ==
    \E i \in InFlight :
        /\ calls' = [calls EXCEPT ![i] = Finished(calls[i])]
        /\ errorBox' = showError("Error: Failed to read file")
        /\ loading' = FALSE
        /\ UNCHANGED <<pc, uploadedFiles, batchResults, tableRenderer, tableRows,
                       listeners, effects, config, loaded, callVars>>

NextOverlap == ClickAnalyze \/ FileLoaded \/ LastFileLoaded \/ FileFailed

SpecOverlap == InitOverlap /\ [][NextOverlap]_vars

\* A FileReader that was started fires its load event or its error event.
FairOverlap == WF_vars(FileFailed \/ FileLoaded \/ LastFileLoaded)

SpecOverlapFair == SpecOverlap /\ FairOverlap

----------------------------------------------------------------------------
(* Claims about matchWords, checked under Spec. *)

Range(s) == {s[i] : i \in DOMAIN s}

\* The number of positions of s that satisfy P.
CountOf(s, P(_)) == Cardinality({i \in DOMAIN s : P(s[i])})

\* How often w occurs in the word list s.
Occurrences(s, w) == Cardinality({i \in DOMAIN s : s[i] = w})

\* The multiset of the elements of s.
BagOf(s) == [x \in Range(s) |-> Cardinality({i \in DOMAIN s : s[i] = x})]

IsExact(m) == m[4] = "exact"
IsGtOnly(m) == m[4] = "gt_only"
IsOcrOnly(m) == m[4] = "ocr_only"
OnGtSide(m) == m[4] \in {"exact", "gt_only"}
OnOcrSide(m) == m[4] \in {"exact", "ocr_only"}

\* The gtWord values over the records of type exact and gt_only, in order.
GtSideWords(ms) == LET side == SelectSeq(ms, OnGtSide)
                   IN  [i \in DOMAIN side |-> side[i][1]]

\* The ocrWord values over the records of type exact and ocr_only, in order.
OcrSideWords(ms) == LET side == SelectSeq(ms, OnOcrSide)
                    IN  [i \in DOMAIN side |-> side[i][2]]

\* The number of records of type t for the word w.
RecordsFor(ms, t, w) ==
    Cardinality({i \in DOMAIN ms :
                    /\ ms[i][4] = t
                    /\ (IF t = "ocr_only" THEN ms[i][2] ELSE ms[i][1]) = w})


\* C1: the records returned by matchWords(R, H) conserve both inputs: the
\* multiset of gtWord over the exact and gt_only records is the multiset of R,
\* the multiset of ocrWord over the exact and ocr_only records is the multiset
\* of H, and so count(exact) + count(gt_only) = |R| and
\* count(exact) + count(ocr_only) = |H|.
C1_Conservation ==
    pc = "done" =>
        /\ BagOf(GtSideWords(matches)) = BagOf(gtWords)
        /\ BagOf(OcrSideWords(matches)) = BagOf(ocrWords)
        /\ CountOf(matches, IsExact) + CountOf(matches, IsGtOnly) = Len(gtWords)
        /\ CountOf(matches, IsExact) + CountOf(matches, IsOcrOnly) = Len(ocrWords)

\* C2: for every word w, matchWords(R, H) holds min(count of w in R, count of
\* w in H) exact records for w, count_R(w) - min gt_only records for w and
\* count_H(w) - min ocr_only records for w.
C2_DuplicateCounts ==
    pc = "done" =>
        \A w \in Vocabulary :
            LET inGt == Occurrences(gtWords, w)
                inOcr == Occurrences(ocrWords, w)
            IN  /\ RecordsFor(matches, "exact", w) = Min2(inGt, inOcr)
                /\ RecordsFor(matches, "gt_only", w) = inGt - Min2(inGt, inOcr)
                /\ RecordsFor(matches, "ocr_only", w) = inOcr - Min2(inGt, inOcr)

\* C1 and C2 restricted to calls whose lists hold no name of an inherited
\* property: there the counts are conserved and paired up to the smaller one.
C1_C2_OrdinaryWords ==
    (/\ pc = "done"
     /\ \A w \in Range(gtWords) \cup Range(ocrWords) : w \notin ObjectPrototypeKeys) =>
        /\ BagOf(GtSideWords(matches)) = BagOf(gtWords)
        /\ BagOf(OcrSideWords(matches)) = BagOf(ocrWords)
        /\ \A w \in Vocabulary :
              LET inGt == Occurrences(gtWords, w)
                  inOcr == Occurrences(ocrWords, w)
              IN  /\ RecordsFor(matches, "exact", w) = Min2(inGt, inOcr)
                  /\ RecordsFor(matches, "gt_only", w) = inGt - Min2(inGt, inOcr)
                  /\ RecordsFor(matches, "ocr_only", w) = inOcr - Min2(inGt, inOcr)

\* C3: the number of exact records of matchWords(R, H) equals the number of
\* exact records of matchWords(H, R).
C3_ExactSymmetry ==
    pc = "done" =>
        CountOf(matches, IsExact) = CountOf(matchWords(ocrWords, gtWords), IsExact)

\* C3 witness: a call whose lists differ in length and in the count of a
\* shared, repeated word, and that returned exact records.
C3_Witness ==
    /\ pc = "done"
    /\ Len(gtWords) # Len(ocrWords)
    /\ CountOf(matches, IsExact) >= 2
    /\ \E w \in Vocabulary :
          /\ Occurrences(gtWords, w) > Occurrences(ocrWords, w)
          /\ Occurrences(ocrWords, w) >= 1

\* The words of Vocabulary in a fixed order.
VocabularyOrder == <<wA, wB, w7, wConstructor>>

\* The list s regrouped word by word: the one arrangement all permutations of
\* s share.
RECURSIVE GroupedFrom(_, _)
GroupedFrom(s, k) ==
    IF k > Len(VocabularyOrder) THEN <<>>
    ELSE Repeat(VocabularyOrder[k], Occurrences(s, VocabularyOrder[k]))
            \o GroupedFrom(s, k + 1)

Grouped(s) == GroupedFrom(s, 1)

\* C4: matchWords is order-invariant: for every permutation R' of R and H' of
\* H, matchWords(R', H') yields the same multiset of match records as
\* matchWords(R, H), and the same precision, recall and F1.  Stated on the
\* arrangement that all permutations of a list share: the call on (R, H)
\* agrees with the call on (Grouped(R), Grouped(H)).  Every pair of lists is
\* the input of some call, and a list and its permutations have the same
\* Grouped list, so any two orderings of the same words agree with each other.
C4_OrderInvariant ==
    pc = "done" =>
        LET grouped == matchWords(Grouped(gtWords), Grouped(ocrWords))
            mG == WordScores(grouped)
            m == WordScores(matches)
        IN  /\ BagOf(Grouped(gtWords)) = BagOf(gtWords)
            /\ BagOf(Grouped(ocrWords)) = BagOf(ocrWords)
            /\ BagOf(grouped) = BagOf(matches)
            /\ mG.precision = m.precision
            /\ mG.recall = m.recall
            /\ mG.f1_score = m.f1_score

\* C4 witness: a call on lists with a repeated word that is not in adjacent
\* positions, so that a permutation changes the lists, and with records of
\* each type.
C4_Witness ==
    /\ pc = "done"
    /\ \E i, j \in DOMAIN gtWords :
          j > i + 1 /\ gtWords[i] = gtWords[j] /\ gtWords[i + 1] # gtWords[i]
    /\ Len(ocrWords) >= 2 /\ ocrWords[1] # ocrWords[2]
    /\ \E i, j \in DOMAIN matches : IsExact(matches[i]) /\ IsGtOnly(matches[j])

----------------------------------------------------------------------------
(* Claims about calculateMetrics, checked under SpecMetrics. *)

IsOther(m) == m[4] \notin {"exact", "gt_only", "ocr_only"}

\* x is a number: neither NaN nor an Infinity.
IsFinite(x) == x[2] > 0

\* C6: precision = exact / total_ocr_words when total_ocr_words > 0 and 0
\* otherwise, recall = exact / total_gt_words when total_gt_words > 0 and 0
\* otherwise, f1 = 2 * precision * recall / (precision + recall) when
\* precision + recall > 0 and 0 otherwise; no match list, the empty one
\* included, makes a division fail.  The quotients are stated by cross
\* multiplication over the records counted in the argument itself.
C6_PrecisionRecallF1 ==
    pc = "done" =>
        LET exact == CountOf(argMatches, IsExact)
            totalGt == exact + CountOf(argMatches, IsGtOnly)
            totalOcr == exact + CountOf(argMatches, IsOcrOnly)
            p == metrics.precision
            r == metrics.recall
            f == metrics.f1_score
            sum == p[1] * r[2] + r[1] * p[2]
        IN  /\ IsFinite(p) /\ IsFinite(r) /\ IsFinite(f) /\ IsFinite(metrics.avg_crr)
            /\ IF totalOcr > 0 THEN p[1] * totalOcr = exact * p[2] ELSE p[1] = 0
            /\ IF totalGt > 0 THEN r[1] * totalGt = exact * r[2] ELSE r[1] = 0
            /\ IF sum > 0 THEN f[1] * sum = 2 * p[1] * r[1] * f[2] ELSE f[1] = 0

\* C6 witness: a call whose precision and recall differ and are both positive.
C6_Witness ==
    /\ pc = "done"
    /\ metrics.precision = <<1, 1>>
    /\ metrics.recall = <<1, 2>>
    /\ metrics.f1_score = <<2, 3>>

\* The full Levenshtein matrix of a and b, row by row: row i at index i + 1,
\* d[i][0] = i, d[0][j] = j and
\* d[i][j] = min(d[i-1][j] + 1, d[i][j-1] + 1, d[i-1][j-1] + [a[i] # b[j]]).
RECURSIVE MatrixRow(_, _, _, _, _)
MatrixRow(a, b, i, above, row) ==
    IF Len(row) = Len(b) + 1 THEN row
    ELSE LET j == Len(row)
             cost == IF a[i] = b[j] THEN 0 ELSE 1
         IN  MatrixRow(a, b, i, above,
                       Append(row, Min3(above[j + 1] + 1, row[j] + 1, above[j] + cost)))

RECURSIVE MatrixFrom(_, _, _)
MatrixFrom(a, b, rows) ==
    IF Len(rows) = Len(a) + 1 THEN rows
    ELSE LET i == Len(rows)
         IN  MatrixFrom(a, b, Append(rows, MatrixRow(a, b, i, rows[i], <<i>>)))

EditDistance(a, b) ==
    MatrixFrom(a, b, <<[k \in 1..(Len(b) + 1) |-> k - 1]>>)[Len(a) + 1][Len(b) + 1]

\* The characters of the words of a list, in order.
Flat(words) ==
    LET F[k \in 0..Len(words)] == IF k = 0 THEN <<>> ELSE F[k - 1] \o words[k]
    IN  F[Len(words)]

C8_CrrNotClamped ==
    (/\ pc = "done"
     /\ metrics.total_gt_chars > 0
     /\ metrics.char_errors > metrics.total_gt_chars) =>
        LET crr == metrics.avg_crr
        IN  /\ IsFinite(crr)
            /\ crr[1] < 0
            /\ crr[1] * metrics.total_gt_chars
                   = (metrics.total_gt_chars - metrics.char_errors) * crr[2]

\* C8 witness: an OCR text of two characters against a ground truth of one,
\* none of them right.
C8_Witness ==
    /\ pc = "done"
    /\ metrics.total_gt_chars = 1
    /\ metrics.char_errors = 2
    /\ metrics.avg_crr = <<-1, 1>>

\* C9: exact_matches, unmatched_gt and unmatched_ocr are the numbers of exact,
\* gt_only and ocr_only records, total_gt_words = exact_matches + unmatched_gt,
\* total_ocr_words = exact_matches + unmatched_ocr, and a record of another
\* type is counted nowhere.
C9_Counts ==
    pc = "done" =>
        /\ metrics.exact_matches = CountOf(argMatches, IsExact)
        /\ metrics.unmatched_gt = CountOf(argMatches, IsGtOnly)
        /\ metrics.unmatched_ocr = CountOf(argMatches, IsOcrOnly)
        /\ metrics.total_gt_words = metrics.exact_matches + metrics.unmatched_gt
        /\ metrics.total_ocr_words = metrics.exact_matches + metrics.unmatched_ocr
        /\ metrics.exact_matches + metrics.unmatched_gt + metrics.unmatched_ocr
               = Len(argMatches) - CountOf(argMatches, IsOther)

\* C9 witness: a call on a match list that holds a record of another type
\* beside a gt_only record.
C9_Witness ==
    /\ pc = "done"
    /\ \E i, j \in DOMAIN argMatches : IsOther(argMatches[i]) /\ IsGtOnly(argMatches[j])

----------------------------------------------------------------------------
(* Claims about levenshteinDistance, checked under SpecLevenshtein. *)

\* C10: levenshteinDistance(a, b), computed on two rolling rows with a row
\* swap and early returns for empty inputs, is the value of the full-matrix
\* Levenshtein recurrence: the minimum number of single-character insertions,
\* deletions and substitutions that turn a into b; it is 0 for a = b and the
\* length of the other string when one string is empty.
C10_Levenshtein ==
    pc = "done" =>
        /\ distance = EditDistance(str1, str2)
        /\ str1 = str2 => distance = 0
        /\ Len(str1) = 0 => distance = Len(str2)
        /\ Len(str2) = 0 => distance = Len(str1)

\* C10 witness: a call on two different non-empty strings of different
\* lengths whose distance needs an insertion and a substitution.
C10_Witness ==
    /\ pc = "done"
    /\ Len(str1) = 2
    /\ Len(str2) = 3
    /\ str1[1] # str2[1]
    /\ distance = 2

\* C11: levenshteinDistance is symmetric: the call on (a, b), whose rows run
\* over a and whose columns run over b, returns what the call on (b, a)
\* returns.
C11_Symmetric ==
    pc = "done" => distance = levenshteinDistance(str2, str1)

\* C11 witness: a call with more rows than columns on strings that share no
\* character, so that the swapped call has more columns than rows.
C11_Witness ==
    /\ pc = "done"
    /\ Len(str1) > Len(str2)
    /\ Len(str2) > 0
    /\ Range(str1) \cap Range(str2) = {}
    /\ distance = Len(str1)

----------------------------------------------------------------------------
(* Claims about createAnnotations, checked under SpecAnnotate. *)

\* The annotations carry, one per token and in the order of the tokens, the
\* surface forms of the tokens.
OnePerToken(data, anns) ==
    /\ Len(anns) = Len(data)
    /\ \A i \in DOMAIN data : anns[i].word = data[i].original

\* C12: for any token list and any match list, createAnnotations returns
\* exactly one annotation per token, in the order of the tokens, and
\* annotation i carries the surface form wordData[i].original (with its case
\* and punctuation), not the normalized word.
C12_OnePerToken ==
    pc = "done" =>
        /\ HasReturned(annotations)
        /\ OnePerToken(wordData, annotations.value)

\* The words of Vocabulary that name no property of Object.prototype.
OrdinaryWords == Vocabulary \ ObjectPrototypeKeys

\* The word a record is filed under on the side annotated.
KeyOf(m) == IF isGroundTruth THEN m[1] ELSE m[2]

\* The record types of the side annotated.
SideTypes == IF isGroundTruth THEN {"exact", "gt_only"} ELSE {"exact", "ocr_only"}

\* Support for C12: the call raises a TypeError exactly when a token, or the
\* key of a record of the side annotated, names a property of
\* Object.prototype; every call that returns satisfies the claim.
C12_OrdinaryWords ==
    pc = "done" =>
        /\ Threw(annotations) <=>
              \/ \E i \in DOMAIN wordData : wordData[i].normalized \in ObjectPrototypeKeys
              \/ \E i \in DOMAIN argMatches :
                    /\ argMatches[i][4] \in SideTypes
                    /\ KeyOf(argMatches[i]) \in ObjectPrototypeKeys
        /\ HasReturned(annotations) => OnePerToken(wordData, annotations.value)

\* The type of an unmatched token of the side annotated.
SideOnly == IF isGroundTruth THEN "gt_only" ELSE "ocr_only"

\* The indices of the tokens of word w, in document order.
TokensOf(data, w) ==
    LET all == [i \in 1..Len(data) |-> i]
        IsW(i) == data[i].normalized = w
    IN  SelectSeq(all, IsW)

\* The number of records of type t filed under w on the side annotated.
RecordCount(ms, t, w) ==
    Cardinality({i \in DOMAIN ms : ms[i][4] = t /\ KeyOf(ms[i]) = w})

\* A word of n tokens with k exact records, 0 < k < n, and n - k unmatched
\* records has its first k tokens annotated exact with a match_id and its
\* last n - k tokens annotated unmatched without one.
FirstToFirst ==
    \A w \in OrdinaryWords :
        LET toks == TokensOf(wordData, w)
            n == Len(toks)
            k == RecordCount(argMatches, "exact", w)
            u == RecordCount(argMatches, SideOnly, w)
        IN  (k >= 1 /\ u >= 1 /\ k + u = n) =>
                \A j \in 1..n :
                    LET a == annotations.value[toks[j]]
                    IN  IF j <= k
                        THEN a.match_type = "exact" /\ a.match_id # JsNull
                        ELSE a.match_type = SideOnly /\ a.match_id = JsNull

\* C13: where a word has both exact records and unmatched records, the exact
\* records go to its earliest tokens: with n tokens and k < n exact records,
\* the first k tokens in document order are annotated 'exact' with a non-null
\* match_id and the last n - k tokens unmatched with match_id null.
C13_FirstToFirst ==
    (pc = "done" /\ HasReturned(annotations)) => FirstToFirst

\* Support for C13: the declaration of preprocessor.js does what the claim
\* says.
C13_PreprocessorCopy ==
    (pc = "done" /\ HasReturned(annotations) /\ loaded = "preprocessor.js")
        => FirstToFirst

----------------------------------------------------------------------------
(* Claims about the scoring loop, checked under SpecLoop. *)

\* The match_ids that occur on the annotations anns.
MatchIdsOn(anns) == {anns[i].match_id : i \in DOMAIN anns} \ {JsNull}

\* The positions in anns of the annotations that carry id.
Carriers(anns, id) == {i \in DOMAIN anns : anns[i].match_id = id}

\* An annotation has a match_id exactly when it is exact.
IdIffExact(anns) ==
    \A i \in DOMAIN anns : (anns[i].match_id # JsNull) <=> (anns[i].match_type = "exact")

\* The match_ids of the exact records of matches.
ExactIds == {MatchId(i - 1) : i \in {k \in DOMAIN matches : matches[k][4] = "exact"}}

\* The three statements of C14 on the annotations of the two sides.
MatchIdsPaired(gtAnns, ocrAnns) ==
    /\ IdIffExact(gtAnns)
    /\ IdIffExact(ocrAnns)
    /\ \A id \in ExactIds \cup MatchIdsOn(gtAnns) \cup MatchIdsOn(ocrAnns) :
          /\ Cardinality(Carriers(gtAnns, id)) = 1
          /\ Cardinality(Carriers(ocrAnns, id)) = 1
          /\ \A i \in Carriers(gtAnns, id), j \in Carriers(ocrAnns, id) :
                gtResult.wordData[i].normalized = ocrResult.wordData[j].normalized

\* C14: with matches = matchWords(R, H) annotated on both sides with the
\* tokens of R and H, an annotation has a non-null match_id exactly when its
\* match_type is 'exact'; every match_id occurs on exactly one ground truth
\* annotation and on exactly one OCR annotation; and the two annotations that
\* share a match_id belong to tokens with the same normalized word.
C14_MatchIds ==
    pc # "start" =>
        /\ HasReturned(gtAnnotations)
        /\ HasReturned(ocrAnnotations)
        /\ MatchIdsPaired(gtAnnotations.value, ocrAnnotations.value)

\* The number of annotations of type t.
AnnotationCount(anns, t) == Cardinality({i \in DOMAIN anns : anns[i].match_type = t})

\* The counts of the annotations by type are the counts of the records.
CountsReproduced(gtAnns, ocrAnns) ==
    /\ AnnotationCount(gtAnns, "exact") = CountType(matches, "exact")
    /\ AnnotationCount(ocrAnns, "exact") = CountType(matches, "exact")
    /\ AnnotationCount(gtAnns, "gt_only") = CountType(matches, "gt_only")
    /\ AnnotationCount(ocrAnns, "ocr_only") = CountType(matches, "ocr_only")
    /\ AnnotationCount(gtAnns, "ocr_only") = 0
    /\ AnnotationCount(ocrAnns, "gt_only") = 0

\* C15: for all texts run through preprocessText, matchWords and
\* createAnnotations on each side, counting the annotations by match_type
\* gives the counts of the match records: the exact annotations of the
\* ground truth side and those of the OCR side both number the exact
\* records, the gt_only annotations the gt_only records, the ocr_only
\* annotations the ocr_only records.
C15_CountsReproduced ==
    pc # "start" =>
        /\ HasReturned(gtAnnotations)
        /\ HasReturned(ocrAnnotations)
        /\ CountsReproduced(gtAnnotations.value, ocrAnnotations.value)

\* Support for C14 and C15: a turn of the loop ends in the catch block
\* exactly when one of the texts holds a word that names a property of
\* Object.prototype, and every turn that does not satisfies both claims.
C14_C15_OrdinaryWords ==
    /\ pc = "error" <=>
          /\ pc # "start"
          /\ \E w \in Range(gtResult.words) \cup Range(ocrResult.words) :
                w \in ObjectPrototypeKeys
    /\ pc = "done" =>
          /\ MatchIdsPaired(gtAnnotations.value, ocrAnnotations.value)
          /\ CountsReproduced(gtAnnotations.value, ocrAnnotations.value)

\* C20: the scoring pipeline never throws: for every pair of texts, the empty
\* text included, and every configuration, preprocessText, matchWords,
\* calculateMetrics and createAnnotations on both sides each return a value,
\* so that the loop over the models needs no exception handling per item.
C20_NeverThrows ==
    pc # "start" =>
        /\ pc # "error"
        /\ HasReturned(gtAnnotations)
        /\ HasReturned(ocrAnnotations)

----------------------------------------------------------------------------
(* Claims about preprocessText, checked under SpecPreprocess. *)

\* The maximal runs of non-whitespace characters of txt from index a on, in
\* order.
RECURSIVE RunsFrom(_, _)
RunsFrom(txt, a) ==
    IF a > Len(txt) THEN <<>>
    ELSE IF txt[a] \in Whitespace THEN RunsFrom(txt, a + 1)
    ELSE LET b == CHOOSE e \in a..Len(txt) :
                    /\ \A k \in a..e : txt[k] \notin Whitespace
                    /\ e = Len(txt) \/ txt[e + 1] \in Whitespace
         IN  <<SubSeq(txt, a, b)>> \o RunsFrom(txt, b + 1)

\* The punctuation characters of a configuration: those of a non-empty
\* punctuation_chars, else the ASCII punctuation.
PunctuationSet(cfg) ==
    IF Len(cfg.punctuation_chars) = 1 /\ Len(cfg.punctuation_chars[1]) > 0
    THEN Range(cfg.punctuation_chars[1])
    ELSE Range(DefaultPunctuation)

\* token without its punctuation characters
WithoutPunctuation(token, cfg) ==
    LET Kept(c) == c \notin PunctuationSet(cfg)
    IN  SelectSeq(token, Kept)

Lowered(word) == [k \in DOMAIN word |-> LowerChar(word[k])]

\* The normalized form of a token: punctuation removed unless
\* ignore_punctuation is false, lower-cased unless case_sensitive is true.
NormalForm(token, cfg) ==
    LET stripped == IF cfg.ignore_punctuation = <<FALSE>> THEN token
                    ELSE WithoutPunctuation(token, cfg)
    IN  IF cfg.case_sensitive = <<TRUE>> THEN stripped ELSE Lowered(stripped)

\* The tokens of txt whose normalized form is not empty, in order.
Survivors(txt, cfg) ==
    LET Survives(token) == Len(NormalForm(token, cfg)) > 0
    IN  SelectSeq(RunsFrom(txt, 1), Survives)

FlagsPresent(cfg) == Len(cfg.ignore_punctuation) = 1 /\ Len(cfg.case_sensitive) = 1

RECURSIVE SegmentsFrom(_, _)
SegmentsFrom(txt, a) ==
    LET Separators == Whitespace \cup Range(DefaultPunctuation)
    IN  IF a > Len(txt) THEN <<>>
        ELSE IF txt[a] \in Separators THEN SegmentsFrom(txt, a + 1)
        ELSE LET b == CHOOSE e \in a..Len(txt) :
                        /\ \A k \in a..e : txt[k] \notin Separators
                        /\ e = Len(txt) \/ txt[e + 1] \in Separators
             IN  <<Lowered(SubSeq(txt, a, b))>> \o SegmentsFrom(txt, b + 1)

\* C18: under ignore_punctuation and without case_sensitive, preprocessText
\* turns a token with interior punctuation into one normalized word per
\* punctuation-separated segment: 'Invoice Number: INV-2024-001' yields the
\* five words invoice, number, inv, 2024, 001.
C18_WordPerSegment ==
    (/\ pc = "done"
     /\ config.ignore_punctuation = <<TRUE>>
     /\ config.case_sensitive = <<FALSE>>
     /\ Len(config.punctuation_chars) = 0) =>
        /\ result.words = SegmentsFrom(text, 1)
        /\ text = InvoiceText =>
              result.words = <<<<"i", "n", "v", "o", "i", "c", "e">>,
                               <<"n", "u", "m", "b", "e", "r">>,
                               <<"i", "n", "v">>,
                               <<"2", "0", "2", "4">>,
                               <<"0", "0", "1">>>>

\* Support for C18: what preprocessText returns for the text of the claim.
C18_InvoiceWords ==
    (/\ pc = "done"
     /\ text = InvoiceText
     /\ config.ignore_punctuation # <<FALSE>>
     /\ config.case_sensitive # <<TRUE>>
     /\ Len(config.punctuation_chars) = 0) =>
        result.words = <<<<"i", "n", "v", "o", "i", "c", "e">>,
                         <<"n", "u", "m", "b", "e", "r">>,
                         <<"i", "n", "v", "2", "0", "2", "4", "0", "0", "1">>>>

\* The configuration with every absent option set to its documented default.
WithDefaults(cfg) ==
    Config(IF Len(cfg.ignore_punctuation) = 0 THEN <<TRUE>> ELSE cfg.ignore_punctuation,
           IF Len(cfg.case_sensitive) = 0 THEN <<FALSE>> ELSE cfg.case_sensitive,
           IF Len(cfg.punctuation_chars) = 0 THEN <<DefaultPunctuation>>
           ELSE cfg.punctuation_chars)

\* C19: preprocessText does not fail on a configuration with options missing
\* and uses the documented defaults: without ignore_punctuation it behaves as
\* with ignore_punctuation = true, without case_sensitive as with
\* case_sensitive = false, without punctuation_chars it uses the fixed ASCII
\* punctuation set.
C19_Defaults ==
    pc = "done" => result = preprocessText(text, WithDefaults(config))

\* C19 witness: a call with the empty configuration object on a text that
\* holds a capital and a punctuation character; the word returned has lost
\* the punctuation and the case.
C19_Witness ==
    /\ pc = "done"
    /\ config = NoConfig
    /\ text = <<"A", "-", "a", "-">>
    /\ result.words = << <<"a", "a">> >>

----------------------------------------------------------------------------
(* Claims about repeated calls of calculateMetrics, checked under           *)
(* SpecRepeat.                                                              *)

----------------------------------------------------------------------------
(* Claims about the batch analysis, checked under SpecBatch. *)

\* The indices of the uploaded files whose name ends in '_out.txt'.
UploadedModels == {i \in DOMAIN uploadedFiles : EndsWith(uploadedFiles[i].name, OutTxt)}

\* The text of the uploaded gt.txt, <<>> when there is none.
UploadedGroundTruth ==
    IF \E i \in DOMAIN uploadedFiles : uploadedFiles[i].name = GtTxt
    THEN uploadedFiles[CHOOSE i \in DOMAIN uploadedFiles : uploadedFiles[i].name = GtTxt].text
    ELSE <<>>

\* One run of the pipeline on a ground truth text and an OCR text alone.
SingleRun(gtText, ocrText) ==
    LET gt == preprocessText(gtText, config)
        ocr == preprocessText(ocrText, config)
        ms == matchWords(gt.words, ocr.words)
        gtAnn == createAnnotationsOf(loaded, gt.wordData, ms, TRUE)
        ocrAnn == createAnnotationsOf(loaded, ocr.wordData, ms, FALSE)
    IN  [completes |-> HasReturned(gtAnn) /\ HasReturned(ocrAnn),
         metrics |-> calculateMetrics(ms, <<gt.words>>, <<ocr.words>>),
         gt_annotations |-> gtAnn.value,
         ocr_annotations |-> ocrAnn.value]

\* The batch reports, for uploaded file i, what the single run on
\* (gt.txt, file i) yields.
ReportedAlone(i) ==
    LET run == SingleRun(UploadedGroundTruth, uploadedFiles[i].text)
        name == ReplaceFirst(uploadedFiles[i].name, OutTxt)
        reports == {k \in DOMAIN batchResults : batchResults[k].model_name = name}
    IN  /\ Cardinality(reports) = 1
        /\ \A k \in reports :
              /\ batchResults[k].metrics = run.metrics
              /\ batchResults[k].gt_annotations = run.gt_annotations
              /\ batchResults[k].ocr_annotations = run.ocr_annotations

\* One result for each file whose name ends in '_out.txt', and for each
\* such file whose single run completes the result of that run.
ScoredIndependently ==
    /\ Len(batchResults) = Cardinality(UploadedModels)
    /\ \A i \in UploadedModels :
          SingleRun(UploadedGroundTruth, uploadedFiles[i].text).completes
              => ReportedAlone(i)

\* C22: a batch analysis of files that include gt.txt reports exactly one
\* result per file whose name ends in '_out.txt', and the metrics and
\* annotations reported for a model file are those of a single run of the
\* pipeline on (gt.txt, that file) with the same configuration, whatever
\* the other files of the batch are and in whatever order they come.
C22_ScoredIndependently ==
    (pc = "done" /\ \E i \in DOMAIN uploadedFiles : uploadedFiles[i].name = GtTxt)
        => ScoredIndependently

\* C22, on the batches it holds for: a ground truth that is not empty, and
\* no file whose text is the name of a property of Object.prototype.
C22_OrdinaryBatch ==
    (/\ pc = "done"
     /\ Len(UploadedGroundTruth) > 0
     /\ \A i \in DOMAIN uploadedFiles : uploadedFiles[i].text # wConstructor)
        => ScoredIndependently

----------------------------------------------------------------------------
(* Claims about the character figures of the two modes, checked under      *)
(* SpecScore.                                                              *)

\* The character errors as README.md lines 222-231 define them: the edit
\* distance of every matched pair, every character of an unmatched ground
\* truth word and every character of an unmatched OCR word.
RECURSIVE WordErrorSum(_)
WordErrorSum(ms) ==
    IF Len(ms) = 0 THEN 0
    ELSE LET m == Head(ms)
             errors == IF IsExact(m) THEN EditDistance(m[1], m[2])
                       ELSE IF IsGtOnly(m) THEN Len(m[1])
                       ELSE Len(m[2])
         IN  errors + WordErrorSum(Tail(ms))

\* C23: the character errors behind CRR are the sum, over the match
\* records, of the edit distances of the matched pairs, the lengths of the
\* unmatched ground truth words and the lengths of the unmatched OCR words,
\* and CRR is one minus their share of the ground truth characters; for
\* 'the quick brown fox' against 'the quik brown' that is 12 errors of 16
\* characters and a CRR of 1/4.
C23_WordErrorSum ==
    pc \in {"manual", "batch"} =>
        /\ metrics.char_errors = WordErrorSum(matches)
        /\ metrics.total_gt_chars > 0 =>
              metrics.avg_crr = Frac(metrics.total_gt_chars - WordErrorSum(matches),
                                     metrics.total_gt_chars)
        /\ (gtWords = ReadmeGroundTruth /\ ocrWords = ReadmeOcrOutput) =>
              /\ metrics.char_errors = 12
              /\ metrics.total_gt_chars = 16
              /\ metrics.avg_crr = Frac(1, 4)

\* C23, what the code yields for the example of the README in either mode:
\* 4 errors of 16 characters, a CRR of 3/4.
C23_ReadmeExample ==
    (pc \in {"manual", "batch"} /\ gtWords = ReadmeGroundTruth
        /\ ocrWords = ReadmeOcrOutput) =>
        /\ WordErrorSum(matches) = 12
        /\ metrics.char_errors = 4
        /\ metrics.total_gt_chars = 16
        /\ metrics.avg_crr = Frac(3, 4)

\* The three character figures of a scorecard.
CharFigures(m) == <<m.char_errors, m.total_gt_chars, m.avg_crr>>

\* C26: for matches = matchWords(gtWords, ocrWords), calculateMetrics
\* without the word lists returns the char_errors, total_gt_chars and
\* avg_crr that calculateMetrics with the word lists returns, so that the
\* manual mode and the batch mode report the same CRR for the same texts.
C26_SameCrr ==
    /\ pc = "manual" =>
          CharFigures(metrics)
              = CharFigures(calculateMetrics(matches, <<gtWords>>, <<ocrWords>>))
    /\ pc = "batch" =>
          CharFigures(metrics) = CharFigures(calculateMetrics(matches, <<>>, <<>>))

\* C26, the part that holds: the two modes agree on the number of ground
\* truth characters, and on every figure when each list holds one word, as
\* often as it likes.
C26_SameTotal ==
    pc \in {"manual", "batch"} =>
        /\ calculateMetrics(matches, <<>>, <<>>).total_gt_chars
              = calculateMetrics(matches, <<gtWords>>, <<ocrWords>>).total_gt_chars
        /\ (Cardinality(Range(gtWords)) <= 1 /\ Cardinality(Range(ocrWords)) <= 1) =>
              CharFigures(calculateMetrics(matches, <<>>, <<>>))
                  = CharFigures(calculateMetrics(matches, <<gtWords>>, <<ocrWords>>))

----------------------------------------------------------------------------
(* Claims about the walk of createAnnotations, checked under SpecAnnotate. *)

\* The records of the side annotated filed under w.
SideRecords(ms, w) ==
    {i \in DOMAIN ms : ms[i][4] \in SideTypes /\ KeyOf(ms[i]) = w}

\* No match_id is on two annotations, and no word has more tokens annotated
\* exact than it has exact records.
NoRecordTwice(data, ms, anns) ==
    /\ \A id \in MatchIdsOn(anns) : Cardinality(Carriers(anns, id)) = 1
    /\ \A i \in DOMAIN data :
          LET w == data[i].normalized
          IN  Cardinality({j \in DOMAIN anns :
                              data[j].normalized = w /\ anns[j].match_type = "exact"})
                  <= RecordCount(ms, "exact", w)

\* C24: in the annotations one call of createAnnotations returns, for any
\* token list and any match list, also with more tokens of a word than
\* records of it, no match record is given to more than one token: no
\* match_id is on two annotations of the side.
C24_NoRecordTwice ==
    (pc = "done" /\ HasReturned(annotations))
        => NoRecordTwice(wordData, argMatches, annotations.value)

\* C24, for the declaration of preprocessor.js, which it holds for.
C24_PreprocessorCopy ==
    (pc = "done" /\ HasReturned(annotations) /\ loaded = "preprocessor.js")
        => NoRecordTwice(wordData, argMatches, annotations.value)

\* The tokens of a word beyond the number of its records are annotated
\* unmatched for the side, with neither partner nor match_id.
ExhaustedUnmatched(data, ms, anns) ==
    \A w \in OrdinaryWords :
        LET toks == TokensOf(data, w)
            r == Cardinality(SideRecords(ms, w))
        IN  r >= 1 =>
                \A j \in 1..Len(toks) :
                    j > r =>
                        LET a == anns[toks[j]]
                        IN  /\ a.match_type = SideOnly
                            /\ a.match_id = JsNull
                            /\ a.matched_with = null

\* C25: when the word of a token is in the lookup but every record of the
\* word is used up, the token is annotated unmatched for its side (gt_only
\* or ocr_only, match_id null, matched_with null) and the walk goes on to
\* return one annotation per token.
C25_ExhaustedUnmatched ==
    (pc = "done" /\ HasReturned(annotations)) =>
        /\ Len(annotations.value) = Len(wordData)
        /\ ExhaustedUnmatched(wordData, argMatches, annotations.value)

\* C25, for the declaration of preprocessor.js, which it holds for.
C25_PreprocessorCopy ==
    (pc = "done" /\ HasReturned(annotations) /\ loaded = "preprocessor.js") =>
        /\ Len(annotations.value) = Len(wordData)
        /\ ExhaustedUnmatched(wordData, argMatches, annotations.value)

----------------------------------------------------------------------------
(* A claim about the spelling of words, checked under SpecLoop. *)

\* A word that occurs in no text of SpecLoop and names no property of
\* Object.prototype.
wOther == <<"o", "t", "h", "e", "r">>

\* The word w with 'constructor' spelled 'other', and back.
Respell(w) == IF w = wConstructor THEN wOther ELSE w
SpellBack(w) == IF w = wOther THEN wConstructor ELSE w

RespellData(data) ==
    [i \in DOMAIN data |-> [data[i] EXCEPT !.normalized = Respell(@)]]

SpellBackRecords(ms) ==
    [i \in DOMAIN ms |-> <<SpellBack(ms[i][1]), SpellBack(ms[i][2]), ms[i][3], ms[i][4]>>]

SpellBackAnnotations(call) ==
    IF HasReturned(call)
    THEN Returned([i \in DOMAIN call.value |->
                      [call.value[i] EXCEPT !.matched_with = SpellBack(@)]])
    ELSE call

\* C28: matchWords and createAnnotations treat every word alike: the records
\* and the annotations depend on which tokens carry the same word and how
\* often, not on how the word is spelled, so a turn on texts with the word
\* 'constructor' yields what the turn yields with that word spelled 'other'
\* throughout (the surface forms kept), the word being counted, matched and
\* annotated like any other.
C28_SpellingBlind ==
    pc \in {"done", "error"} =>
        LET gtData == RespellData(gtResult.wordData)
            ocrData == RespellData(ocrResult.wordData)
            ms == matchWords([i \in DOMAIN gtData |-> gtData[i].normalized],
                             [i \in DOMAIN ocrData |-> ocrData[i].normalized])
            gtAnn == createAnnotationsOf(loaded, gtData, ms, TRUE)
            ocrAnn == createAnnotationsOf(loaded, ocrData, ms, FALSE)
        IN  /\ matches = SpellBackRecords(ms)
            /\ gtAnnotations = SpellBackAnnotations(gtAnn)
            /\ ocrAnnotations = SpellBackAnnotations(ocrAnn)

----------------------------------------------------------------------------
(* Claims about the comparison table, checked under SpecTable. *)

\* x >= y on fractions
FGeq(x, y) == FSub(x, y)[1] >= 0

\* The rows of the table carry the ranks 1, 2, ... in non-increasing order
\* of F1 as far as rank 3, the row of rank 1 with the champion title.
RankedByF1(rs) ==
    /\ Len(rs) >= 1 =>
          /\ rs[1].rank = 1
          /\ rs[1].title = "Champion - Highest F1 Score"
          /\ \A i \in DOMAIN rs : FGeq(rs[1].f1_score, rs[i].f1_score)
    /\ \A i \in DOMAIN rs :
          (i >= 2 /\ i <= 3) =>
              /\ rs[i].rank = i
              /\ FGeq(rs[i - 1].f1_score, rs[i].f1_score)
              /\ \A j \in DOMAIN rs : j > i => FGeq(rs[i].f1_score, rs[j].f1_score)

\* C27: in every state of the table that renderTable and handleSort lead
\* to, the row shown with rank 1 and the title 'Champion - Highest F1 Score'
\* is a model whose f1_score is maximal, and the rows of rank 2 and 3 follow
\* in non-increasing order of F1.
C27_RankedByF1 == RankedByF1(tableRows)

\* C27, as long as the table is sorted the way it starts, by F1 descending.
C27_DefaultSort ==
    (tableRenderer.sortColumn = "f1_score" /\ ~tableRenderer.sortAscending)
        => RankedByF1(tableRows)

\* C29: however often renderTable has run, one click on the export button
\* makes one export and one change of a column checkbox renders the table
\* once.
C29_OneHandler ==
    /\ (effects.event = "export" /\ listeners.export >= 1) => effects.exports = 1
    /\ (effects.event = "change" /\ listeners.toggle >= 1) => effects.renders = 1

\* C29, after the first renderTable only.
C29_FirstRender ==
    /\ (effects.event = "export" /\ listeners.export = 1) => effects.exports = 1
    /\ (effects.event = "change" /\ listeners.toggle = 1) => effects.renders = 1
    /\ listeners.export = listeners.toggle

----------------------------------------------------------------------------
(* Claims about the loading indicator, checked under SpecOverlap. *)

\* C30: under any interleaving of invocations of handleBatchAnalyze, two
\* overlapping ones included, the loading indicator shows whenever at least
\* one invocation is between showLoading and its finally block, and is
\* hidden once none is: no invocation hides it while another is still
\* reading files or scoring.
C30_ShownWhileInFlight == loading <=> InFlight # {}

\* C30, with one invocation at a time: the indicator shows exactly while the
\* invocation is in flight, on success and on every error path.
C30_OneAtATime == Len(calls) <= 1 => (loading <=> InFlight # {})

\* C30, the half that holds for overlapping invocations too: with no
\* invocation in flight the indicator is hidden.
C30_HiddenWhenIdle == InFlight = {} => ~loading

\* C30, the liveness half, under SpecOverlapFair: every invocation leaves
\* its finally block in the end, and the indicator is hidden then.
C30_EventuallyHidden == []<>(InFlight = {} /\ ~loading)

====
